---- MODULE Spec2Model ----
(***************************************************************************)
(* Model of the RAS2 PCC command channel (drivers/acpi/ras2.c) and of the  *)
(* scrub contexts that use it (drivers/ras/acpi_ras2.c), and of the CXL    *)
(* feature transfer, cxl_get_feature and cxl_set_feature                   *)
(* (drivers/cxl/core/features.c), which moves feature data through the     *)
(* mailbox in chunks.  The two parts share no state: the RAS2              *)
(* specifications leave the mailbox variables alone and the feature        *)
(* specifications leave the RAS2 variables alone.                          *)
(*                                                                         *)
(* Time.  The code reads ktime_get() and keeps absolute timestamps; every  *)
(* decision it takes depends on a difference ktime_get() - timestamp only. *)
(* The model keeps these differences: since_cmpl is ktime_get() -          *)
(* last_cmd_cmpl_time, since_reset is ktime_get() - last_mpar_reset,       *)
(* poll_left is next_deadline - ktime_get().  Tick lets one clock tick     *)
(* pass and ages all of them.  The code stores the first two in an         *)
(* unsigned int, so they wrap: since_cmpl counts modulo UsWrapTicks and    *)
(* since_reset modulo MsWrapTicks, which stand for 2^32 us and 2^32 ms.    *)
(* The durations of the code (msleep(10), the 60 s MPAR window, the MRTT,  *)
(* the poll deadline) are given in ticks by the *Ticks definitions;        *)
(* msleep(10) is taken to last exactly PollTicks.  A thread that can take  *)
(* a step takes it before the clock advances: the clock advances only      *)
(* while every thread is idle, blocked on a mutex, sleeping or delaying.   *)
(***************************************************************************)
EXTENDS Integers, Sequences, FiniteSets, TLC

\* ------------------------------------------------------------------ bounds
\* msleep(10), 60 * MSEC_PER_SEC, RAS2_NUM_RETRIES * latency and
\* min_turnaround_time in clock ticks; max_access_rate of a limited subspace;
\* the range of the unsigned int time_delta, in us and in ms, in clock ticks;
\* the largest status code the agent reports.
PollTicks == 2
WindowTicks == 4
DeadlineTicks == 3
MrttTicks == 2
MparCap == 2
UsWrapTicks == 4
MsWrapTicks == 6
MaxCapCode == 7
\* The largest mailbox (cxl_mbox->payload_size) and the largest feature data
\* size of the CXL feature transfers; the distance from 2^16 of the high
\* offset the callers use.
MaxPayload == 43
MaxData == 90
WrapRoom == 6
\* The most features the agent reports (supported_feats) and the most
\* feature entries the largest mailbox of the enumeration holds.
MaxFeats == 4
MaxPage == 2
\* The users (scrub contexts) that register PCC channels, and the struct
\* ras2_pcc_subspace objects kcalloc() hands out before it fails.
MaxUsers == 2
MaxAllocs == 2

\* ------------------------------------------------------- program constants
RAS2_PCC_CMD_EXEC == 1
ACPI_RAS2_NOT_VALID == 1
ACPI_RAS2_NOT_SUPPORTED == 2
ACPI_RAS2_BUSY == 3
ACPI_RAS2_FAILED == 4
ACPI_RAS2_ABORTED == 5
ACPI_RAS2_INVALID_DATA == 6
RAS2_PCC_CMD_COMPLETE == "COMPLETE"
RAS2_PCC_CMD_ERROR == "ERROR"
RAS2_GET_PATROL_PARAMETERS == "GET_PATROL_PARAMETERS"
RAS2_START_PATROL_SCRUBBER == "START_PATROL_SCRUBBER"
RAS2_STOP_PATROL_SCRUBBER == "STOP_PATROL_SCRUBBER"

Threads == {1, 2}
\* PCC subspaces (channels) and the scrub contexts bound to them: contexts 1
\* and 2 share subspace 1, context 3 is alone on subspace 2.
Chans == {1, 2}
Ctxs == {1, 2, 3}
pcc_subspace(x) == IF x = 3 THEN 2 ELSE 1
\* u16 cmd: RAS2_PCC_CMD_EXEC and one opcode that is not.
Cmds == {0, RAS2_PCC_CMD_EXEC}
CapCodes == 0 .. MaxCapCode
PatrolCmds == {RAS2_GET_PATROL_PARAMETERS, RAS2_START_PATROL_SCRUBBER,
               RAS2_STOP_PATROL_SCRUBBER}

Min(a, b) == IF a < b THEN a ELSE b

VARIABLES
    ras2_pcc_subspace_lock,  \* 0, or the thread holding the global mutex
    ctx_lock,                \* ras2_scrub_ctx.lock: 0 or the holding thread
    th,                      \* per thread: position and locals of its call
    shm,                     \* per subspace: the shared communication region
    pending,                 \* per subspace: doorbell rung, agent has not answered
    since_cmpl,              \* (unsigned int)(ktime_get() - last_cmd_cmpl_time)
    since_reset,             \* (unsigned int)(ktime_get() - last_mpar_reset)
    mpar_count,              \* static in ras2_send_pcc_cmd
    pcc_mrtt,                \* per subspace: min_turnaround_time
    pcc_mpar,                \* per subspace: max_access_rate
    hist,                    \* history of the run, read by the properties only
    mbox,                    \* struct cxl_mailbox: payload_size, feature_cmds
    fx,                      \* the feature call in progress (get, set or enumeration)
    dev,                     \* the agent: bytes written over the feature's current value
    seen,                    \* what the caller of the feature calls got from its last call
    ras2_pcc_subspaces,      \* the list of registered subspaces, head first
    subspace,                \* the struct ras2_pcc_subspace objects allocated so far
    usr,                     \* per user (scrub context): position in register / unregister
    sctx                     \* struct ras2_scrub_ctx of one device, and its last handler run

rasVars == <<ras2_pcc_subspace_lock, ctx_lock, th, shm, pending, since_cmpl,
             since_reset, mpar_count, pcc_mrtt, pcc_mpar, hist>>
cxlVars == <<mbox, fx, dev, seen>>
regVars == <<ras2_pcc_subspaces, subspace, usr, sctx>>
vars == <<rasVars, cxlVars, regVars>>

\* ------------------------------------------------------------ pure helpers
\* ret < 0; results are "OK" (0) or the name of the errno returned negated.
Neg(r) == r # "OK"

\* Variant of ras2_report_cap_error with ACPI_RAS2_BUSY among the -EPERM cases.
ras2_report_cap_error_PermForBusy(cap_status) ==
    IF cap_status \in {ACPI_RAS2_NOT_VALID, ACPI_RAS2_NOT_SUPPORTED, ACPI_RAS2_BUSY}
    THEN "EPERM"
    ELSE IF cap_status \in {ACPI_RAS2_FAILED, ACPI_RAS2_ABORTED, ACPI_RAS2_INVALID_DATA}
    THEN "EINVAL"
    ELSE "OK"

\* switch (cap_status) of ras2_report_cap_error.
ras2_report_cap_error(cap_status) ==
    IF cap_status \in {ACPI_RAS2_NOT_VALID, ACPI_RAS2_NOT_SUPPORTED} THEN "EPERM"
    ELSE IF cap_status = ACPI_RAS2_BUSY THEN "EBUSY"
    ELSE IF cap_status \in {ACPI_RAS2_FAILED, ACPI_RAS2_ABORTED, ACPI_RAS2_INVALID_DATA}
    THEN "EINVAL"
    ELSE "OK"

\* readw_relaxed() of the 32-bit set_capabilities_status field: the low 16 bits.
readw(v) == v % 65536

\* pcc_subspace->deadline, RAS2_NUM_RETRIES * latency, in ticks.
deadline(c) == DeadlineTicks

\* The longest a call can take from its doorbell to its return, plus one.
MaxElapsed == DeadlineTicks + PollTicks + 1

\* A thread's record: pc, the arguments and locals of its call, and (from
\* `wrote` on) what happened in the call, kept until the caller has the result.
ThreadInit ==
    [pc |-> "idle", op |-> "none", ctx |-> 1, cmd |-> 0,
     enable |-> "none", round |-> 0, pcmd |-> "none",
     ret |-> "none", poll_left |-> 0, wake_left |-> 0,
     wrote |-> FALSE, rang |-> FALSE, polledPost |-> FALSE,
     rings |-> 0, txFailed |-> FALSE,
     sinceRing |-> 0,
     preSlept |-> FALSE, mrttWaited |-> FALSE,
     preFailed |-> FALSE, prevFailed |-> FALSE,
     qChecked |-> FALSE, qCount |-> 0, qDelta |-> 0,
     refused |-> FALSE, admAtRefusal |-> 0, reReset |-> FALSE,
     errCap |-> -1, noAnswer |-> FALSE, prevCmpl |-> -1,
     sawWriter |-> 0, sawPcmd |-> "none"]

ShmInit ==
    [command |-> 0, status |-> {RAS2_PCC_CMD_COMPLETE}, cap |-> 0,
     ps_cmd |-> "none", ps_writer |-> 0]

HistInit ==
    [sends |-> [c \in Chans |-> <<>>],    \* ages of the doorbells of the last window
     cmplAge |-> [c \in Chans |-> -1],    \* age of the completion of the last command rung
     lastFail |-> [c \in Chans |-> FALSE],\* last call on c ended in timeout or translated error
     resets |-> 0,                        \* 1 once the quota has been reset
     cap |-> 0,                           \* quota installed by the last reset
     admits |-> 0,                        \* commands admitted since the last reset
     used |-> [c \in Chans |-> 0],        \* of these, the commands of subspace c
     sinceRefusal |-> 0]                  \* commands admitted since the last refusal

\* Some subspace has the setting f (pcc_mrtt, pcc_mpar) non-zero: only then
\* does the code read the timestamp that goes with it, and the model keep its
\* age.
Timed(f) == \E c \in Chans : f[c] # 0

\* The statics are zero-initialised and the first call comes at some uptime.
\* No subspace is registered yet and no user is in a call.
Users == 1 .. MaxUsers
\* ras2_ctx = devm_kzalloc(...): the context ras2_probe starts from, and the
\* record of a handler run: the handler and its argument, the background flag
\* at its entry, what its status query returned and reported, the patrol
\* scrub commands it passed to ras2_send_pcc_cmd, in order, and its result.
SctxInit ==
    [pc |-> "probe", bg |-> FALSE, base |-> 0, size |-> 0,
     op |-> "none", enable |-> FALSE, bg0 |-> FALSE,
     query |-> "none", running |-> FALSE, sent |-> <<>>, ret |-> "none"]

RegInit ==
    /\ ras2_pcc_subspaces = <<>>
    /\ subspace = <<>>
    /\ usr = [u \in Users |->
                [pc |-> "idle", id |-> 0, new |-> 0, pcc_subspace |-> 0,
                 bound |-> FALSE, ret |-> "none"]]
    /\ sctx = SctxInit

InitWith(T, mrtts, mpars) ==
    /\ ras2_pcc_subspace_lock = 0
    /\ ctx_lock = [x \in Ctxs |-> 0]
    /\ th = [t \in Threads |-> ThreadInit]
    /\ shm = [c \in Chans |-> ShmInit]
    /\ pending = [c \in Chans |-> FALSE]
    /\ pcc_mrtt \in mrtts
    /\ pcc_mpar \in mpars
    /\ \E uptime \in T :
         /\ since_cmpl = IF Timed(pcc_mrtt) THEN uptime % UsWrapTicks ELSE 0
         /\ since_reset = IF Timed(pcc_mpar) THEN uptime % MsWrapTicks ELSE 0
    /\ mpar_count = 0
    /\ hist = HistInit
    /\ RegInit

chan(t) == pcc_subspace(th[t].ctx)

\* ---------------------------------------------------------------- callers
\* A caller enters ras2_send_pcc_cmd(ctx, cmd) directly.
CallSend(t, x, k) ==
    /\ th[t].pc = "idle"
    /\ th' = [th EXCEPT ![t] = [ThreadInit EXCEPT !.pc = "lock", !.op = "send",
                                                 !.ctx = x, !.cmd = k]]
    /\ UNCHANGED <<ras2_pcc_subspace_lock, ctx_lock, shm, pending, since_cmpl,
                   since_reset, mpar_count, pcc_mrtt, pcc_mpar, hist>>
    /\ UNCHANGED cxlVars
    /\ UNCHANGED regVars

\* ras2_hw_scrub_set_enabled_bg / _od on context x, to start or to stop the
\* scrubber (p).  Under the context's lock the handler makes up to three
\* requests, each one a write of the patrol scrub parameters into the shared
\* region followed by ras2_send_pcc_cmd(RAS2_PCC_CMD_EXEC): it reads the
\* parameters (ras2_get_patrol_scrub_running), starts or stops the scrubber,
\* and reads the parameters again (ras2_update_patrol_scrub_params_cache).
ScrubRounds == 3
patrol_scrub_command(p, round) ==
    IF round = 2 THEN p ELSE RAS2_GET_PATROL_PARAMETERS

CallScrub(t, x, p) ==
    /\ th[t].pc = "idle"
    /\ th' = [th EXCEPT ![t] = [ThreadInit EXCEPT
                                   !.pc = "ctxlock", !.op = "scrub", !.ctx = x,
                                   !.enable = p, !.round = 1,
                                   !.pcmd = patrol_scrub_command(p, 1),
                                   !.cmd = RAS2_PCC_CMD_EXEC]]
    /\ UNCHANGED <<ras2_pcc_subspace_lock, ctx_lock, shm, pending, since_cmpl,
                   since_reset, mpar_count, pcc_mrtt, pcc_mpar, hist>>
    /\ UNCHANGED cxlVars
    /\ UNCHANGED regVars

\* guard(mutex)(&ras2_ctx->lock)
CtxLock(t) ==
    /\ th[t].pc = "ctxlock"
    /\ ctx_lock[th[t].ctx] = 0
    /\ ctx_lock' = [ctx_lock EXCEPT ![th[t].ctx] = t]
    /\ th' = [th EXCEPT ![t].pc = "params"]
    /\ UNCHANGED <<ras2_pcc_subspace_lock, shm, pending, since_cmpl,
                   since_reset, mpar_count, pcc_mrtt, pcc_mpar, hist>>
    /\ UNCHANGED cxlVars
    /\ UNCHANGED regVars

\* ps_sm->params.patrol_scrub_command = ...: written under the context's lock
\* only, before ras2_send_pcc_cmd takes the subspace lock.
WriteParams(t) ==
    /\ th[t].pc = "params"
    /\ shm' = [shm EXCEPT ![chan(t)].ps_cmd = th[t].pcmd,
                          ![chan(t)].ps_writer = th[t].ctx]
    /\ th' = [th EXCEPT ![t].pc = "lock"]
    /\ UNCHANGED <<ras2_pcc_subspace_lock, ctx_lock, pending, since_cmpl,
                   since_reset, mpar_count, pcc_mrtt, pcc_mpar, hist>>
    /\ UNCHANGED cxlVars
    /\ UNCHANGED regVars

\* ras2_send_pcc_cmd has returned to the handler.  The handler returns if the
\* request failed, if it was the last one, or if after the first one the checks
\* on what was read (bg, running, base and size) end it; else it goes on to
\* its next request.  Its return releases the context's lock.
ScrubNext(t) ==
    /\ th[t].pc = "done"
    /\ th[t].op = "scrub"
    /\ \E more \in BOOLEAN :
          /\ more => th[t].ret = "OK" /\ th[t].round < ScrubRounds
          /\ ~more => th[t].ret # "OK" \/ th[t].round # 2
          /\ IF more
             THEN /\ th' = [th EXCEPT ![t] = [ThreadInit EXCEPT
                              !.pc = "params", !.op = "scrub",
                              !.ctx = th[t].ctx, !.enable = th[t].enable,
                              !.round = th[t].round + 1,
                              !.pcmd = patrol_scrub_command(th[t].enable,
                                                            th[t].round + 1),
                              !.cmd = RAS2_PCC_CMD_EXEC]]
                  /\ UNCHANGED ctx_lock
             ELSE /\ th' = [th EXCEPT ![t] = ThreadInit]
                  /\ ctx_lock' = [ctx_lock EXCEPT ![th[t].ctx] = 0]
    /\ UNCHANGED <<ras2_pcc_subspace_lock, shm, pending, since_cmpl,
                   since_reset, mpar_count, pcc_mrtt, pcc_mpar, hist>>
    /\ UNCHANGED cxlVars
    /\ UNCHANGED regVars

\* ------------------------------------------------------ ras2_send_pcc_cmd
\* Variant of MutexFree without mutual exclusion.
MutexFree_NoMutex(t) == TRUE

\* The mutex is free for a caller to take.
MutexFree(t) == ras2_pcc_subspace_lock = 0

\* The thread's record when ras2_send_pcc_cmd returns r.
Returned(t, r) ==
    [th[t] EXCEPT !.pc = "done", !.ret = r, !.poll_left = 0, !.wake_left = 0,
                  !.noAnswer = pending[chan(t)]]

\* The guard of ras2_send_pcc_cmd goes out of scope: the subspace mutex is
\* released.
Unlock(t) ==
    /\ ras2_pcc_subspace_lock' = 0
    /\ UNCHANGED ctx_lock

\* One iteration of the loop of ras2_check_pcc_chan: "ret" with the value the
\* function returns and the status word it leaves, or "sleep" for msleep(10).
\* ktime_after(ktime_get(), next_deadline) is poll_left < 0.
ras2_check_pcc_chan(t) ==
    LET status == shm[chan(t)].status
        cap_status == readw(shm[chan(t)].cap)
    IN  IF th[t].poll_left < 0
        THEN [k |-> "ret", r |-> "EIO", status |-> status, cap |-> -1]
        ELSE IF RAS2_PCC_CMD_ERROR \in status
        THEN [k |-> "ret", r |-> ras2_report_cap_error(cap_status),
              status |-> status \ {RAS2_PCC_CMD_ERROR}, cap |-> cap_status]
        ELSE IF RAS2_PCC_CMD_COMPLETE \in status
        THEN [k |-> "ret", r |-> "OK", status |-> status, cap |-> -1]
        ELSE [k |-> "sleep", r |-> "none", status |-> status, cap |-> -1]

\* guard(mutex)(&ras2_pcc_subspace_lock), then ras2_check_pcc_chan() starts:
\* next_deadline = ktime_get() + deadline.
Lock(t) ==
    /\ th[t].pc = "lock"
    /\ MutexFree(t)
    /\ ras2_pcc_subspace_lock' = t
    /\ th' = [th EXCEPT ![t].pc = "pre",
                        ![t].poll_left = deadline(chan(t)),
                        ![t].prevFailed = hist.lastFail[chan(t)]]
    /\ UNCHANGED <<ctx_lock, shm, pending, since_cmpl, since_reset, mpar_count,
                   pcc_mrtt, pcc_mpar, hist>>
    /\ UNCHANGED cxlVars
    /\ UNCHANGED regVars

\* ret = ras2_check_pcc_chan(pcc_subspace); if (ret < 0) return ret;
PrePoll(t) ==
    /\ th[t].pc = "pre"
    /\ LET o == ras2_check_pcc_chan(t)
           c == chan(t)
       IN  /\ shm' = [shm EXCEPT ![c].status = o.status]
           /\ IF o.k = "sleep"
              THEN /\ th' = [th EXCEPT ![t].pc = "pre_sleep",
                                       ![t].wake_left = PollTicks,
                                       ![t].preSlept = TRUE]
                   /\ UNCHANGED <<ras2_pcc_subspace_lock, ctx_lock, hist>>
              ELSE IF Neg(o.r)
              THEN /\ th' = [th EXCEPT ![t] = [Returned(t, o.r) EXCEPT
                                                   !.preFailed = TRUE,
                                                   !.errCap = o.cap]]
                   /\ Unlock(t)
                   /\ hist' = [hist EXCEPT !.lastFail[c] = TRUE]
              ELSE /\ th' = [th EXCEPT ![t].pc = "mrtt", ![t].poll_left = 0]
                   /\ UNCHANGED <<ras2_pcc_subspace_lock, ctx_lock, hist>>
    /\ UNCHANGED <<pending, since_cmpl, since_reset, mpar_count, pcc_mrtt,
                   pcc_mpar>>
    /\ UNCHANGED cxlVars
    /\ UNCHANGED regVars

\* Minimum Request Turnaround Time: time_delta = ktime_us_delta(ktime_get(),
\* last_cmd_cmpl_time), an unsigned int;
\* if (pcc_mrtt > time_delta) udelay(pcc_mrtt - time_delta).
Mrtt(t) ==
    /\ th[t].pc = "mrtt"
    /\ LET c == chan(t)
           time_delta == since_cmpl
       IN  IF pcc_mrtt[c] # 0 /\ pcc_mrtt[c] > time_delta
           THEN th' = [th EXCEPT ![t].pc = "mrtt_wait",
                                 ![t].wake_left = pcc_mrtt[c] - time_delta,
                                 ![t].mrttWaited = TRUE]
           ELSE th' = [th EXCEPT ![t].pc = "mpar"]
    /\ UNCHANGED <<ras2_pcc_subspace_lock, ctx_lock, shm, pending, since_cmpl,
                   since_reset, mpar_count, pcc_mrtt, pcc_mpar, hist>>
    /\ UNCHANGED cxlVars
    /\ UNCHANGED regVars

\* msleep(10) or udelay() is over.
Wake(t) ==
    /\ th[t].pc \in {"pre_sleep", "post_sleep", "mrtt_wait"}
    /\ th[t].wake_left = 0
    /\ th' = [th EXCEPT ![t].pc = CASE th[t].pc = "pre_sleep" -> "pre"
                                    [] th[t].pc = "post_sleep" -> "post"
                                    [] OTHER -> "mpar"]
    /\ UNCHANGED <<ras2_pcc_subspace_lock, ctx_lock, shm, pending, since_cmpl,
                   since_reset, mpar_count, pcc_mrtt, pcc_mpar, hist>>
    /\ UNCHANGED cxlVars
    /\ UNCHANGED regVars

\* Variants of MparExhausted: a check that never refuses, and one that does
\* not look at the time since the last reset.
MparExhausted_Never(t) == FALSE

MparExhausted_CountOnly(t) == mpar_count = 0

\* The MPAR quota is used up and the 60 s window since the last reset has not
\* elapsed: mpar_count == 0 and time_delta < 60 * MSEC_PER_SEC, time_delta
\* being ktime_ms_delta(ktime_get(), last_mpar_reset) as an unsigned int.
MparExhausted(t) ==
    /\ mpar_count = 0
    /\ since_reset < WindowTicks

\* Variant of QuotaReset that restores the quota whenever the window has
\* elapsed.
QuotaReset_WindowOnly(t) == since_reset >= WindowTicks

\* if (mpar_count == 0), for a command that is not refused: the quota is
\* restored and the window restarted.
QuotaReset(t) == mpar_count = 0

\* What the rate-limit check found, for the properties.
QuotaSeen(t) ==
    [th[t] EXCEPT !.qChecked = TRUE, !.qCount = mpar_count,
                  !.qDelta = since_reset]

\* Variant of MparRefuse that waits for the window to elapse and tries again.
MparRefuse_WaitWindow(t) ==
    /\ th' = [th EXCEPT ![t] = [QuotaSeen(t) EXCEPT
                                   !.pc = "mrtt_wait",
                                   !.wake_left = WindowTicks - since_reset]]
    /\ UNCHANGED <<ras2_pcc_subspace_lock, ctx_lock, hist>>
    /\ UNCHANGED cxlVars
    /\ UNCHANGED regVars

\* dev_dbg("PCC cmd not sent due to MPAR limit"); return -EIO;
MparRefuse(t) ==
    /\ th' = [th EXCEPT ![t] = [QuotaSeen(t) EXCEPT
                                   !.pc = "done", !.ret = "EIO",
                                   !.noAnswer = pending[chan(t)],
                                   !.refused = TRUE,
                                   !.admAtRefusal = hist.sinceRefusal]]
    /\ Unlock(t)
    /\ hist' = [hist EXCEPT !.sinceRefusal = 0, !.lastFail[chan(t)] = FALSE]
    /\ UNCHANGED cxlVars
    /\ UNCHANGED regVars

\* Maximum Periodic Access Rate: the check of lines 133-145.
Mpar(t) ==
    /\ th[t].pc = "mpar"
    /\ LET c == chan(t)
       IN  IF pcc_mpar[c] = 0
           THEN /\ th' = [th EXCEPT ![t].pc = "wr_cmd"]
                /\ UNCHANGED <<ras2_pcc_subspace_lock, ctx_lock, since_reset,
                               mpar_count, hist>>
           ELSE IF MparExhausted(t)
           THEN /\ MparRefuse(t)
                /\ UNCHANGED <<since_reset, mpar_count>>
           ELSE /\ th' = [th EXCEPT ![t] = [QuotaSeen(t) EXCEPT
                                  !.pc = "wr_cmd",
                                  !.reReset = mpar_count = 0 /\ hist.resets = 1]]
                /\ IF QuotaReset(t)
                   THEN /\ since_reset' = 0
                        /\ mpar_count' = pcc_mpar[c] - 1
                        /\ hist' = [hist EXCEPT
                               !.resets = 1, !.cap = pcc_mpar[c], !.admits = 1,
                               !.used = [s \in Chans |-> IF s = c THEN 1 ELSE 0],
                               !.sinceRefusal = Min(@ + 1, MparCap + 1)]
                   ELSE /\ mpar_count' = mpar_count - 1
                        /\ hist' = [hist EXCEPT
                               !.admits = @ + 1, !.used[c] = @ + 1,
                               !.sinceRefusal = Min(@ + 1, MparCap + 1)]
                        /\ UNCHANGED since_reset
                /\ UNCHANGED <<ras2_pcc_subspace_lock, ctx_lock>>
    /\ UNCHANGED <<shm, pending, since_cmpl, pcc_mrtt, pcc_mpar>>
    /\ UNCHANGED cxlVars
    /\ UNCHANGED regVars

\* writew_relaxed(cmd, &generic_comm_base->command)
WriteCmd(t) ==
    /\ th[t].pc = "wr_cmd"
    /\ shm' = [shm EXCEPT ![chan(t)].command = th[t].cmd]
    /\ th' = [th EXCEPT ![t].pc = "clr_status", ![t].wrote = TRUE]
    /\ UNCHANGED <<ras2_pcc_subspace_lock, ctx_lock, pending, since_cmpl,
                   since_reset, mpar_count, pcc_mrtt, pcc_mpar, hist>>
    /\ UNCHANGED cxlVars
    /\ UNCHANGED regVars

\* Variant of ClearStatus that leaves the status word as it is.
ClearStatus_Kept(t) ==
    /\ th[t].pc = "clr_status"
    /\ th' = [th EXCEPT ![t].pc = "ring"]
    /\ UNCHANGED <<ras2_pcc_subspace_lock, ctx_lock, shm, pending, since_cmpl,
                   since_reset, mpar_count, pcc_mrtt, pcc_mpar, hist>>
    /\ UNCHANGED cxlVars
    /\ UNCHANGED regVars

\* writew_relaxed(0, &generic_comm_base->status)
ClearStatus(t) ==
    /\ th[t].pc = "clr_status"
    /\ shm' = [shm EXCEPT ![chan(t)].status = {}]
    /\ th' = [th EXCEPT ![t].pc = "ring"]
    /\ UNCHANGED <<ras2_pcc_subspace_lock, ctx_lock, pending, since_cmpl,
                   since_reset, mpar_count, pcc_mrtt, pcc_mpar, hist>>
    /\ UNCHANGED cxlVars
    /\ UNCHANGED regVars

\* Variant of WaitsForCompletion that polls after every doorbell.
WaitsForCompletion_Always(t) == TRUE

\* The command is one ras2_send_pcc_cmd waits for after the doorbell:
\* if (cmd == RAS2_PCC_CMD_EXEC || pcc_subspace->pcc_mrtt).
WaitsForCompletion(t) ==
    th[t].cmd = RAS2_PCC_CMD_EXEC \/ pcc_mrtt[chan(t)] # 0

\* The doorbell of a rate-limited subspace is entered in the window's log.
Logged(c, s) == IF pcc_mpar[c] # 0 THEN Append(s, 0) ELSE s

\* mbox_send_message() rings the doorbell; the agent then sees the command and
\* the parameters that are in the shared region.
RingOk(t) ==
    /\ th[t].pc = "ring"
    /\ LET c == chan(t)
           rung == [th[t] EXCEPT !.rang = TRUE, !.rings = @ + 1,
                                 !.prevCmpl = hist.cmplAge[c],
                                 !.sawWriter = shm[c].ps_writer,
                                 !.sawPcmd = shm[c].ps_cmd]
       IN  /\ pending' = [pending EXCEPT ![c] = TRUE]
           /\ IF WaitsForCompletion(t)
              THEN /\ th' = [th EXCEPT ![t] = [rung EXCEPT
                                !.pc = "post", !.polledPost = TRUE,
                                !.poll_left = deadline(c)]]
                   /\ hist' = [hist EXCEPT !.sends[c] = Logged(c, @),
                                           !.cmplAge[c] = -1]
                   /\ UNCHANGED <<ras2_pcc_subspace_lock, ctx_lock>>
              ELSE /\ th' = [th EXCEPT ![t] = [rung EXCEPT
                                !.pc = "done", !.ret = "OK", !.noAnswer = TRUE]]
                   /\ hist' = [hist EXCEPT !.sends[c] = Logged(c, @),
                                           !.cmplAge[c] = -1,
                                           !.lastFail[c] = FALSE]
                   /\ Unlock(t)
    /\ UNCHANGED <<shm, since_cmpl, since_reset, mpar_count, pcc_mrtt, pcc_mpar>>
    /\ UNCHANGED cxlVars
    /\ UNCHANGED regVars

\* Variant of RingFail that rings again after a failed mbox_send_message().
RingFail_Retry(t) ==
    /\ th[t].pc = "ring"
    /\ th[t].rings < 2
    /\ th' = [th EXCEPT ![t].rings = @ + 1, ![t].txFailed = TRUE]
    /\ UNCHANGED <<ras2_pcc_subspace_lock, ctx_lock, hist>>
    /\ UNCHANGED <<shm, pending, since_cmpl, since_reset, mpar_count, pcc_mrtt,
                   pcc_mpar>>
    /\ UNCHANGED cxlVars
    /\ UNCHANGED regVars

\* mbox_send_message() fails: if (ret < 0) return ret;
RingFail(t) ==
    /\ th[t].pc = "ring"
    /\ th' = [th EXCEPT ![t] = [Returned(t, "ENOBUFS") EXCEPT
                                    !.rings = @ + 1, !.txFailed = TRUE]]
    /\ Unlock(t)
    /\ hist' = [hist EXCEPT !.lastFail[chan(t)] = FALSE]
    /\ UNCHANGED <<shm, pending, since_cmpl, since_reset, mpar_count, pcc_mrtt,
                   pcc_mpar>>
    /\ UNCHANGED cxlVars
    /\ UNCHANGED regVars

\* ret = ras2_check_pcc_chan(); if (pcc_mrtt) last_cmd_cmpl_time = ktime_get();
\* txdone; return ret >= 0 ? 0 : ret;
PostPoll(t) ==
    /\ th[t].pc = "post"
    /\ LET o == ras2_check_pcc_chan(t)
           c == chan(t)
       IN  /\ shm' = [shm EXCEPT ![c].status = o.status]
           /\ IF o.k = "sleep"
              THEN /\ th' = [th EXCEPT ![t].pc = "post_sleep",
                                       ![t].wake_left = PollTicks]
                   /\ UNCHANGED <<ras2_pcc_subspace_lock, ctx_lock, hist,
                                  since_cmpl>>
              ELSE /\ th' = [th EXCEPT ![t] = [Returned(t, o.r) EXCEPT
                                                   !.errCap = o.cap]]
                   /\ since_cmpl' = IF pcc_mrtt[c] # 0 THEN 0 ELSE since_cmpl
                   /\ Unlock(t)
                   /\ hist' = [hist EXCEPT !.lastFail[c] = Neg(o.r)]
    /\ UNCHANGED <<pending, since_reset, mpar_count, pcc_mrtt, pcc_mpar>>
    /\ UNCHANGED cxlVars
    /\ UNCHANGED regVars

\* The caller of ras2_send_pcc_cmd has the result of its call.
Ack(t) ==
    /\ th[t].pc = "done"
    /\ th[t].op = "send"
    /\ th' = [th EXCEPT ![t] = ThreadInit]
    /\ UNCHANGED <<ras2_pcc_subspace_lock, ctx_lock, shm, pending, since_cmpl,
                   since_reset, mpar_count, pcc_mrtt, pcc_mpar, hist>>
    /\ UNCHANGED cxlVars
    /\ UNCHANGED regVars

\* ------------------------------------------------------------------ clock
Blocked(t) ==
    \/ th[t].pc = "idle"
    \/ th[t].pc = "lock" /\ ras2_pcc_subspace_lock # 0
    \/ th[t].pc = "ctxlock" /\ ctx_lock[th[t].ctx] # 0
    \/ th[t].pc \in {"pre_sleep", "post_sleep", "mrtt_wait"} /\ th[t].wake_left > 0

\* A clock that does not bring the poll deadline nearer.
Aged_NoDeadline(r) ==
    [r EXCEPT !.wake_left = IF @ > 0 THEN @ - 1 ELSE 0,
              !.sinceRing = IF r.rang THEN Min(@ + 1, MaxElapsed) ELSE @]

\* One tick later, for a thread: its sleep and its poll deadline are a tick
\* nearer, its doorbell a tick older.
Aged(r) ==
    [r EXCEPT !.wake_left = IF @ > 0 THEN @ - 1 ELSE 0,
              !.poll_left = IF r.pc \in {"pre_sleep", "post_sleep"} /\ @ >= 0
                            THEN @ - 1 ELSE @,
              !.sinceRing = IF r.rang THEN Min(@ + 1, MaxElapsed) ELSE @]

AgedSends(s) ==
    LET older == [i \in 1 .. Len(s) |-> s[i] + 1]
    IN  SelectSeq(older, LAMBDA a : a < WindowTicks)

Tick ==
    /\ \A t \in Threads : Blocked(t)
    /\ since_cmpl' = IF Timed(pcc_mrtt) THEN (since_cmpl + 1) % UsWrapTicks
                      ELSE since_cmpl
    /\ since_reset' = IF Timed(pcc_mpar) THEN (since_reset + 1) % MsWrapTicks
                       ELSE since_reset
    /\ th' = [t \in Threads |-> Aged(th[t])]
    /\ hist' = [hist EXCEPT
           !.sends = [c \in Chans |-> AgedSends(hist.sends[c])],
           !.cmplAge = [c \in Chans |-> IF hist.cmplAge[c] < 0 THEN -1
                                        ELSE Min(hist.cmplAge[c] + 1, MrttTicks)]]
    /\ UNCHANGED <<ras2_pcc_subspace_lock, ctx_lock, shm, pending, mpar_count,
                   pcc_mrtt, pcc_mpar>>
    /\ UNCHANGED cxlVars
    /\ UNCHANGED regVars

\* ------------------------------------------------------------------ agent
\* The platform answers a command it was rung for, at a time of its choosing
\* (or never): it sets the command-complete bit,
AgentComplete(c) ==
    /\ pending[c]
    /\ pending' = [pending EXCEPT ![c] = FALSE]
    /\ shm' = [shm EXCEPT ![c].status = @ \cup {RAS2_PCC_CMD_COMPLETE}]
    /\ hist' = [hist EXCEPT !.cmplAge[c] = 0]
    /\ UNCHANGED <<ras2_pcc_subspace_lock, ctx_lock, th, since_cmpl,
                   since_reset, mpar_count, pcc_mrtt, pcc_mpar>>
    /\ UNCHANGED cxlVars
    /\ UNCHANGED regVars

\* or the error bit (with or without command-complete) and a status code.
AgentError(c, code, wc) ==
    /\ pending[c]
    /\ pending' = [pending EXCEPT ![c] = FALSE]
    /\ shm' = [shm EXCEPT ![c].status = @ \cup {RAS2_PCC_CMD_ERROR} \cup
                              (IF wc THEN {RAS2_PCC_CMD_COMPLETE} ELSE {}),
                          ![c].cap = code]
    /\ hist' = [hist EXCEPT !.cmplAge[c] = IF wc THEN 0 ELSE @]
    /\ UNCHANGED <<ras2_pcc_subspace_lock, ctx_lock, th, since_cmpl,
                   since_reset, mpar_count, pcc_mrtt, pcc_mpar>>
    /\ UNCHANGED cxlVars
    /\ UNCHANGED regVars

\* ============================================================ CXL features
\* cxl_get_feature and cxl_set_feature (drivers/cxl/core/features.c) move a
\* feature record through the mailbox in chunks.  Each chunk is one call of
\* cxl_internal_send_cmd(), whose code is not part of these sources: the model
\* takes it as the exchange of one command with the agent, which either fails
\* (a negative result, with the return code the device reported, or none when
\* the device was not reached) or succeeds with some number of output bytes up
\* to the output size offered.

\* sizeof(struct cxl_mbox_get_feat_in) and sizeof(struct cxl_mbox_set_feat_hdr).
GetHdrSize == 21
SetHdrSize == 32
FEAT_DATA_MIN_PAYLOAD_SIZE == 10
CXL_SET_FEAT_FLAG_DATA_TRANSFER_MASK == 7
CXL_SET_FEAT_FLAG_FULL_DATA_TRANSFER == 0
CXL_SET_FEAT_FLAG_INITIATE_DATA_TRANSFER == 1
CXL_SET_FEAT_FLAG_CONTINUE_DATA_TRANSFER == 2
CXL_SET_FEAT_FLAG_FINISH_DATA_TRANSFER == 3
CXL_SET_FEAT_FLAG_ABORT_DATA_TRANSFER == 4
CXL_SET_FEAT_FLAG_DATA_SAVED_ACROSS_RESET == 8
CXL_MBOX_OP_GET_FEATURE == "GET_FEATURE"
CXL_MBOX_OP_SET_FEATURE == "SET_FEATURE"
CXL_MBOX_CMD_RC_SUCCESS == "SUCCESS"
CXL_MBOX_CMD_RC_INPUT == "INPUT"
CXL_GET_FEAT_SEL_CURRENT_VALUE == "CURRENT_VALUE"
CXL_GET_FEAT_SEL_DEFAULT_VALUE == "DEFAULT_VALUE"
CXL_MBOX_OP_GET_SUPPORTED_FEATURES == "GET_SUPPORTED_FEATURES"
\* sizeof(struct cxl_mbox_get_sup_feats_out) without entries, sizeof(struct
\* cxl_feat_entry); cxlfs->cap.
SupFeatsHdrSize == 8
FeatEntrySize == 48
CXL_FEATURES_RO == 1
CXL_FEATURES_RW == 2

\* cxl_mbox->payload_size of the devices modelled: from one byte less than
\* the smallest mailbox cxl_set_feature accepts up to MaxPayload.
PayloadSizes == (SetHdrSize + FEAT_DATA_MIN_PAYLOAD_SIZE - 1) .. MaxPayload
\* feat_out_size and feat_data_size of the calls modelled.
DataSizes == 0 .. MaxData
\* The offsets the callers pass (a u16, from user space in fwctl.c): the start
\* of the record, and one so close to 2^16 that offset + bytes done wraps.
Offsets == {0, 65536 - WrapRoom}
Selections == {CXL_GET_FEAT_SEL_CURRENT_VALUE, CXL_GET_FEAT_SEL_DEFAULT_VALUE}
\* Failures of one command: the result of cxl_internal_send_cmd and the
\* return code left in the command (SUCCESS, its initial 0, when the device
\* reported none).
ChannelFailures ==
    {[rc |-> "ENXIO", return_code |-> "UNSUPPORTED"],
     [rc |-> "EBUSY", return_code |-> "BUSY"],
     [rc |-> "ETIMEDOUT", return_code |-> CXL_MBOX_CMD_RC_SUCCESS]}

cpu_to_le16(v) == v % 65536

\* The agent's feature data: the value each selection had when the device was
\* attached (a function of the position), and the bytes written since over
\* the current value.
Factory(sel, p) ==
    IF sel = CXL_GET_FEAT_SEL_CURRENT_VALUE THEN (3 * p + 1) % 256
    ELSE (5 * p + 2) % 256
AgentByte(d, sel, p) ==
    IF sel = CXL_GET_FEAT_SEL_CURRENT_VALUE /\ p \in DOMAIN d THEN d[p]
    ELSE Factory(sel, p)
\* The agent's answer to a Get Feature of n bytes at offset o.
AgentRead(d, sel, o, n) == [j \in 1 .. n |-> AgentByte(d, sel, o + j - 1)]
\* The agent's data after a Set Feature chunk with bytes b at offset o.
AgentWrite(d, o, b) ==
    [p \in DOMAIN d \cup {o + j - 1 : j \in 1 .. Len(b)} |->
        IF p >= o /\ p < o + Len(b) THEN b[p - o + 1] ELSE d[p]]

\* A caller's buffer after n bytes b arrive at position at (0-based); the
\* bytes that do not fit are those written past its end.
Stored(buf, at, b) ==
    [i \in 1 .. Len(buf) |->
        IF i > at /\ i <= at + Len(b) THEN b[i - at] ELSE buf[i]]

\* The locals of get_supported_features and the struct cxl_features_state
\* of devm_cxl_add_features: cap, num_features, num_user_features and
\* entries (has_entries: cxlfs->entries is set), and whether cxlmd->cxlfs
\* points to it (attached); counted and pages tell what was asked of the
\* agent.
EnInit ==
    [cap |-> 0, count |-> 0, max_feats |-> 0, remain_feats |-> 0,
     start |-> 0, entry |-> 0, ents |-> <<>>, user_feats |-> 0,
     counted |-> FALSE, pages |-> <<>>,
     num_features |-> 0, num_user_features |-> 0,
     has_entries |-> FALSE, entries |-> <<>>, attached |-> FALSE]

\* The call in progress: arguments, locals, result, and what went on.
FxInit ==
    [pc |-> "idle", op |-> "none",
     size |-> 0, offset |-> 0, sel |-> CXL_GET_FEAT_SEL_CURRENT_VALUE,
     arg_flag |-> 0, flag |-> 0, data |-> <<>>,
     size_out |-> 0, done_size |-> 0, data_in_size |-> 0, flags |-> 0,
     buf |-> <<>>, count |-> 0, rc |-> "none", return_code |-> "none",
     last |-> [opcode |-> "none"], log |-> <<>>,
     stopped |-> FALSE, afterStop |-> FALSE, zeroOut |-> FALSE,
     failed |-> [rc |-> "none", return_code |-> "none"],
     inRange |-> TRUE, exact |-> TRUE, overrun |-> FALSE, dev0 |-> <<>>,
     en |-> EnInit,
     rpc |-> [on |-> FALSE]]

\* What the caller has from its last successful call: the arguments, the
\* bytes it got or gave, and whether the agent answered each command with
\* the count asked for.
SeenInit ==
    [valid |-> FALSE, op |-> "none", size |-> 0, offset |-> 0,
     sel |-> CXL_GET_FEAT_SEL_CURRENT_VALUE, bytes |-> <<>>, exact |-> FALSE]

\* No CXL device takes part.
NoMailbox ==
    /\ mbox = [payload_size |-> 0, feature_cmds |-> {}]
    /\ fx = FxInit
    /\ dev = <<>>
    /\ seen = SeenInit

\* A device with a mailbox of one of the sizes P and one of the command sets F.
MboxInit(P, F) ==
    /\ mbox \in [payload_size : P, feature_cmds : F]
    /\ fx = FxInit
    /\ dev = <<>>
    /\ seen = SeenInit

cxl_feature_enabled(opcode) == opcode \in mbox.feature_cmds

\* ------------------------------------------------------- cxl_get_feature
\* feat_out is NULL, or a buffer of feat_out_size bytes that hold whatever
\* the caller left in them (feat_out.fill).
\* cxl_get_feature(features, uuid, selection, feat_out, feat_out_size,
\* offset, &return_code) up to its loop: *return_code = CXL_MBOX_CMD_RC_INPUT,
\* and 0 is returned when the device has no Get Feature command or the caller
\* gave no buffer or no size.
CallGet(sz, off, sel, feat_out) ==
    /\ fx.pc = "idle"
    /\ LET call == [FxInit EXCEPT !.op = "get", !.size = sz, !.offset = off,
                                  !.sel = sel, !.dev0 = dev,
                                  !.return_code = CXL_MBOX_CMD_RC_INPUT,
                                  !.buf = IF feat_out.null THEN <<>>
                                          ELSE [i \in 1 .. sz |-> feat_out.fill]]
       IN  IF \/ ~cxl_feature_enabled(CXL_MBOX_OP_GET_FEATURE)
              \/ feat_out.null
              \/ sz = 0
           THEN fx' = [call EXCEPT !.pc = "done", !.count = 0]
           ELSE fx' = [call EXCEPT !.pc = "get",
                                   !.size_out = Min(sz, mbox.payload_size),
                                   !.done_size = 0]
    /\ UNCHANGED <<mbox, dev, seen>>
    /\ UNCHANGED rasVars
    /\ UNCHANGED regVars

\* Variant of GetCount that asks for all the bytes missing in one command.
GetCount_Unsplit(remaining) == remaining

\* data_to_rd_size = min(feat_out_size - data_rcvd_size, payload_size)
GetCount(remaining) == Min(remaining, mbox.payload_size)

\* Variant of GetFailed that takes a command without output as progress.
GetFailed_RcOnly(failure, n) == failure

\* if (rc < 0 || !mbox_cmd.size_out)
GetFailed(failure, n) == failure \/ n = 0

\* Variant of GetFailure that returns the bytes received before the failure.
GetFailure_Partial(rcvd) == rcvd

\* The value cxl_get_feature returns on a failed command.
GetFailure(rcvd) == 0

\* Variant of GetDest that stores every chunk at the start of the buffer.
GetDest_Start(rcvd) == 0

\* .payload_out = feat_out + data_rcvd_size
GetDest(rcvd) == rcvd

\* The command of one iteration of the loop.
GetCmd ==
    LET data_to_rd_size == GetCount(fx.size - fx.done_size)
    IN  [opcode |-> CXL_MBOX_OP_GET_FEATURE,
         size_in |-> GetHdrSize,
         offset |-> cpu_to_le16(fx.offset + fx.done_size),
         count |-> cpu_to_le16(data_to_rd_size),
         sel |-> fx.sel,
         size_out |-> fx.size_out,
         min_out |-> data_to_rd_size,
         at |-> fx.done_size]

\* The numbers of output bytes a command c succeeds with: none, the count
\* asked for, one more, and all that the output size offered allows.  (An
\* answer shorter than min_out is among the failures of the command.)
AgentLens(c) == {n \in {0, c.count, c.count + 1, c.size_out} : n <= c.size_out}

\* The record of the call once the command c is issued.
Issued(c) ==
    [fx EXCEPT !.last = c, !.afterStop = @ \/ fx.stopped]

\* One iteration fails: *return_code = mbox_cmd.return_code; return 0;
GetChunkFails ==
    /\ fx.pc = "get"
    /\ \E f \in ChannelFailures :
          fx' = [Issued(GetCmd) EXCEPT
                                   !.pc = "done",
                                   !.count = GetFailure(fx.done_size),
                                   !.return_code = f.return_code,
                                   !.failed = f, !.stopped = TRUE]
    /\ UNCHANGED <<mbox, dev, seen>>
    /\ UNCHANGED rasVars
    /\ UNCHANGED regVars

\* One iteration in which the command succeeds with n output bytes, which
\* are stored at feat_out + data_rcvd_size.
GetChunk(n) ==
    /\ fx.pc = "get"
    /\ LET c == GetCmd
           b == AgentRead(dev, c.sel, c.offset, n)
           rcvd == fx.done_size + n
           got == [Issued(c) EXCEPT
                     !.buf = Stored(@, GetDest(fx.done_size), b),
                     !.inRange = @ /\ n >= c.min_out /\ n <= c.size_out,
                     !.exact = @ /\ n = c.count,
                     !.overrun = @ \/ rcvd > fx.size,
                     !.zeroOut = @ \/ n = 0,
                     !.stopped = @ \/ n = 0]
       IN  /\ n <= c.size_out
           /\ IF GetFailed(FALSE, n)
              THEN fx' = [got EXCEPT !.pc = "done",
                                     !.count = GetFailure(fx.done_size),
                                     !.return_code = CXL_MBOX_CMD_RC_SUCCESS]
              ELSE IF rcvd < fx.size
              THEN fx' = [got EXCEPT !.done_size = rcvd]
              ELSE fx' = [got EXCEPT !.pc = "done", !.done_size = rcvd,
                                     !.count = rcvd,
                                     !.return_code = CXL_MBOX_CMD_RC_SUCCESS]
    /\ UNCHANGED <<mbox, dev, seen>>
    /\ UNCHANGED rasVars
    /\ UNCHANGED regVars

\* The agent returns more bytes than the caller's buffer has left: they are
\* written past its end, and the kernel may fail there instead of going on.
GetOverrun(n) ==
    /\ fx.pc = "get"
    /\ n <= fx.size_out
    /\ fx.done_size + n > fx.size
    /\ fx' = [Issued(GetCmd) EXCEPT !.pc = "oops", !.overrun = TRUE]
    /\ UNCHANGED <<mbox, dev, seen>>
    /\ UNCHANGED rasVars
    /\ UNCHANGED regVars

\* ------------------------------------------------------- cxl_set_feature
\* The data the callers set: feat_data_size bytes that depend on the position.
FeatData(n) == [i \in 1 .. n |-> (7 * i + 5) % 256]
\* The feat_flag values the callers pass: nothing, data-transfer bits only,
\* a bit above the data-transfer field, and both with the saved-across-reset bit.
CallerFlags == {0, 5, 16, 29}

\* Bit b of the u32 f.
Bit(f, b) ==
    IF b < 16 THEN (f \div (2 ^ b)) % 2 = 1
    ELSE ((f \div 65536) \div (2 ^ (b - 16))) % 2 = 1
\* Variant of SetFlag that leaves the caller's data-transfer bits in place.
SetFlag_MaskKept(feat_flag) ==
    IF Bit(feat_flag, 3) THEN feat_flag
    ELSE feat_flag + CXL_SET_FEAT_FLAG_DATA_SAVED_ACROSS_RESET

\* feat_flag &= ~CXL_SET_FEAT_FLAG_DATA_TRANSFER_MASK;
\* feat_flag |= CXL_SET_FEAT_FLAG_DATA_SAVED_ACROSS_RESET;
SetFlag(feat_flag) ==
    LET f == feat_flag - (feat_flag % (CXL_SET_FEAT_FLAG_DATA_TRANSFER_MASK + 1))
    IN  IF Bit(f, 3) THEN f ELSE f + CXL_SET_FEAT_FLAG_DATA_SAVED_ACROSS_RESET

\* Variant of ChunkFlags that sends the data-transfer phase alone.
ChunkFlags_PhaseOnly(feat_flag, phase) == phase

\* pi->hdr.flags = cpu_to_le32(feat_flag | phase), feat_flag having no bit of
\* the data-transfer field.
ChunkFlags(feat_flag, phase) == feat_flag + phase

\* Variant of TooSmall that asks for the header only.
TooSmall_HeaderOnly(hdr_size) == hdr_size > mbox.payload_size

\* if (hdr_size + FEAT_DATA_MIN_PAYLOAD_SIZE > cxl_mbox->payload_size)
TooSmall(hdr_size) == hdr_size + FEAT_DATA_MIN_PAYLOAD_SIZE > mbox.payload_size

\* Variant of FitsOne that splits a payload that fills the mailbox exactly.
FitsOne_Strict(hdr_size, sz) == hdr_size + sz < mbox.payload_size

\* if ((hdr_size + feat_data_size) <= cxl_mbox->payload_size)
FitsOne(hdr_size, sz) == hdr_size + sz <= mbox.payload_size

\* Variant of IsLast that takes a remainder that fills a chunk exactly as
\* not being the last.
IsLast_Strict(remaining, hdr_size) == remaining < mbox.payload_size - hdr_size

\* if ((feat_data_size - data_sent_size) <= (payload_size - hdr_size))
IsLast(remaining, hdr_size) == remaining <= mbox.payload_size - hdr_size

\* cxl_set_feature(features, uuid, version, feat_data, feat_data_size,
\* feat_flag, offset, &return_code) up to its loop.
SetCall(sz, off, flag) ==
    LET call == [FxInit EXCEPT !.op = "set", !.size = sz, !.offset = off,
                               !.arg_flag = flag,
                               !.data = FeatData(sz), !.dev0 = dev,
                               !.return_code = CXL_MBOX_CMD_RC_INPUT]
        feat_flag == SetFlag(flag)
    IN  IF ~cxl_feature_enabled(CXL_MBOX_OP_SET_FEATURE)
        THEN [call EXCEPT !.pc = "done", !.rc = "EOPNOTSUPP"]
        ELSE IF TooSmall(SetHdrSize)
        THEN [call EXCEPT !.pc = "done", !.rc = "ENOMEM"]
        ELSE IF FitsOne(SetHdrSize, sz)
        THEN [call EXCEPT
                !.pc = "set", !.flag = feat_flag,
                !.flags = ChunkFlags(feat_flag,
                              CXL_SET_FEAT_FLAG_FULL_DATA_TRANSFER),
                !.data_in_size = sz]
        ELSE [call EXCEPT
                !.pc = "set", !.flag = feat_flag,
                !.flags = ChunkFlags(feat_flag,
                              CXL_SET_FEAT_FLAG_INITIATE_DATA_TRANSFER),
                !.data_in_size = mbox.payload_size - SetHdrSize]

CallSet(sz, off, flag) ==
    /\ fx.pc = "idle"
    /\ fx' = SetCall(sz, off, flag)
    /\ UNCHANGED <<mbox, dev, seen>>
    /\ UNCHANGED rasVars
    /\ UNCHANGED regVars

\* kmalloc(cxl_mbox->payload_size) returns NULL and pi->hdr.uuid is written
\* through it: the call does not return.
CallSetNoMem(sz, off, flag) ==
    /\ fx.pc = "idle"
    /\ cxl_feature_enabled(CXL_MBOX_OP_SET_FEATURE)
    /\ fx' = [FxInit EXCEPT !.op = "set", !.size = sz, !.offset = off,
                            !.arg_flag = flag,
                            !.data = FeatData(sz), !.dev0 = dev,
                            !.return_code = CXL_MBOX_CMD_RC_INPUT,
                            !.pc = "oops"]
    /\ UNCHANGED <<mbox, dev, seen>>
    /\ UNCHANGED rasVars
    /\ UNCHANGED regVars

\* Variant of SetCmd whose header takes the offset without cutting it to 16
\* bits.
SetCmd_OffsetWide ==
    [opcode |-> CXL_MBOX_OP_SET_FEATURE,
     size_in |-> SetHdrSize + fx.data_in_size,
     flags |-> fx.flags,
     offset |-> fx.offset + fx.done_size,
     len |-> fx.data_in_size,
     at |-> fx.done_size]

\* Variant of SetCmd whose offset does not advance with the bytes sent.
SetCmd_OffsetFixed ==
    [opcode |-> CXL_MBOX_OP_SET_FEATURE,
     size_in |-> SetHdrSize + fx.data_in_size,
     flags |-> fx.flags,
     offset |-> cpu_to_le16(fx.offset),
     len |-> fx.data_in_size,
     at |-> fx.done_size]

\* The command of one iteration of the loop.
SetCmd ==
    [opcode |-> CXL_MBOX_OP_SET_FEATURE,
     size_in |-> SetHdrSize + fx.data_in_size,
     flags |-> fx.flags,
     offset |-> cpu_to_le16(fx.offset + fx.done_size),
     len |-> fx.data_in_size,
     at |-> fx.done_size]

\* The record of the call once the SET command c is issued.
IssuedSet(c) == [Issued(c) EXCEPT !.log = Append(@, c)]

\* Variant of SetFailure that carries on after a failed chunk as if the
\* whole feature had been set.
SetFailure_Ignored(f) ==
    [rc |-> "OK", return_code |-> CXL_MBOX_CMD_RC_SUCCESS]

\* if (rc < 0) { *return_code = mbox_cmd.return_code; return rc; }
SetFailure(f) == [rc |-> f.rc, return_code |-> f.return_code]

\* One iteration fails: *return_code = mbox_cmd.return_code; return rc;
SetChunkFails ==
    /\ fx.pc = "set"
    /\ \E f \in ChannelFailures :
          fx' = [IssuedSet(SetCmd) EXCEPT
                    !.pc = "done", !.rc = SetFailure(f).rc,
                    !.return_code = SetFailure(f).return_code,
                    !.failed = f, !.stopped = TRUE]
    /\ UNCHANGED <<mbox, dev, seen>>
    /\ UNCHANGED rasVars
    /\ UNCHANGED regVars

\* One iteration in which the command succeeds: the agent stores the chunk
\* at the offset of its header.
SetChunk ==
    /\ fx.pc = "set"
    /\ LET c == SetCmd
           chunk == SubSeq(fx.data, fx.done_size + 1, fx.done_size + c.len)
           sent == fx.done_size + fx.data_in_size
           remaining == fx.size - sent
           put == [IssuedSet(c) EXCEPT !.done_size = sent]
       IN  /\ dev' = AgentWrite(dev, c.offset, chunk)
           /\ IF sent >= fx.size
              THEN fx' = [put EXCEPT !.pc = "done", !.rc = "OK",
                                     !.return_code = CXL_MBOX_CMD_RC_SUCCESS]
              ELSE IF IsLast(remaining, SetHdrSize)
              THEN fx' = [put EXCEPT
                            !.data_in_size = remaining,
                            !.flags = ChunkFlags(fx.flag,
                                         CXL_SET_FEAT_FLAG_FINISH_DATA_TRANSFER)]
              ELSE fx' = [put EXCEPT
                            !.flags = ChunkFlags(fx.flag,
                                         CXL_SET_FEAT_FLAG_CONTINUE_DATA_TRANSFER)]
    /\ UNCHANGED <<mbox, seen>>
    /\ UNCHANGED rasVars
    /\ UNCHANGED regVars

\* ----------------------------------------------------------- the callers
\* The caller has the result of its call; it keeps what a successful call
\* gave it.
FeatReturn ==
    /\ fx.pc = "done"
    /\ fx' = FxInit
    /\ seen' = IF fx.op = "get" /\ fx.count > 0 /\ ~fx.overrun
               THEN [valid |-> TRUE, op |-> "get",
                     size |-> fx.size, offset |-> fx.offset, sel |-> fx.sel,
                     bytes |-> fx.buf, exact |-> fx.exact]
               ELSE IF fx.op = "set" /\ fx.rc = "OK"
               THEN [valid |-> TRUE, op |-> "set",
                     size |-> fx.size, offset |-> fx.offset,
                     sel |-> CXL_GET_FEAT_SEL_CURRENT_VALUE,
                     bytes |-> fx.data, exact |-> TRUE]
               ELSE seen
    /\ UNCHANGED <<mbox, dev>>
    /\ UNCHANGED rasVars
    /\ UNCHANGED regVars

\* A caller reads a feature, and once it has read it reads it again, with
\* the same arguments, into a buffer that holds other bytes than the first.
GetCalls ==
    \E sz \in DataSizes, off \in Offsets, sel \in Selections, null \in BOOLEAN :
       /\ seen.valid => sz = seen.size /\ off = seen.offset /\ sel = seen.sel
       /\ CallGet(sz, off, sel,
                  [null |-> null, fill |-> IF seen.valid THEN 170 ELSE 0])

\* A caller sets a feature of a device not yet written to,
SetCalls ==
    \E sz \in DataSizes, off \in Offsets, flag \in CallerFlags :
       /\ ~seen.valid
       /\ dev = <<>>
       /\ \/ CallSet(sz, off, flag)
          \/ CallSetNoMem(sz, off, flag)

\* and reads back the current value of what it has set.
ReadBack ==
    /\ seen.valid
    /\ seen.op = "set"
    /\ CallGet(seen.size, seen.offset, CXL_GET_FEAT_SEL_CURRENT_VALUE,
               [null |-> FALSE, fill |-> 170])

GetSteps ==
    \/ GetChunkFails
    \/ \E n \in AgentLens(GetCmd) : GetChunk(n)
    \/ \E n \in AgentLens(GetCmd) : GetOverrun(n)

SetSteps == SetChunkFails \/ SetChunk

\* ------------------------------------------------------- the fwctl SET RPC
\* cxlctl_fw_rpc() for a Set Feature command from user space
\* (drivers/cxl/fwctl.c).  The RPC names a feature by its uuid; feat is what
\* get_support_feature_info() finds for it in the directory of the device
\* (found, and then the changeable flag and the effects of the entry; the
\* effects as the classes the checks tell apart: IMMEDIATE for a config, data,
\* policy or log change that is immediate, RESET for a config change at a
\* cold, conventional or CXL reset, BACKGROUND, RESERVED for a reserved bit).
\* scope is the enum fwctl_rpc_scope: 0 configuration, 1 debug read only,
\* 2 debug write, 3 debug write full.
cxl_exclusive_feats ==
    {"PATROL_SCRUB", "ECS", "SPPR", "HPPR", "CACHELINE_SPARING", "ROW_SPARING",
     "BANK_SPARING", "RANK_SPARING"}

\* Declared in drivers/cxl/features.h; its body is not among these sources
\* and is taken to compare the uuid with cxl_exclusive_feats, as
\* is_cxl_feature_exclusive() does for an entry.
is_cxl_feature_exclusive_by_uuid(uuid) == uuid \in cxl_exclusive_feats

\* Variant of cxlctl_validate_set_features that lets every RPC through.
cxlctl_validate_set_features_Always(feat, scope) == TRUE

cxlctl_validate_set_features(feat, scope) ==
    IF ~feat.found THEN FALSE
    ELSE IF ~feat.changeable THEN FALSE
    ELSE IF "RESERVED" \in feat.effects THEN FALSE
    ELSE IF "BACKGROUND" \in feat.effects THEN FALSE
    ELSE IF "IMMEDIATE" \in feat.effects /\ scope >= 3 THEN TRUE
    ELSE "RESET" \in feat.effects /\ scope >= 2

\* The whole RPC up to the first SET command: cxlctl_validate_hw_command(),
\* then cxlctl_set_feature() with its size check, its two allocations and
\* the copy from user space (fail is the one of these that fails, if any:
\* "copy" and "in" before the exclusivity check, "out" after it), and the
\* entry into cxl_set_feature() with the data that follows the header
\* ("pi" is the kmalloc() there returning NULL).
\* The RPCs sent: every scope, the exclusive features and another one, every
\* kind of directory entry, a payload of the header alone, of one byte of
\* data and of more data than one command holds.
CallRpcSet ==
    /\ fx.pc = "idle"
    /\ \E scope \in 0 .. 3, uuid \in cxl_exclusive_feats \cup {"OTHER"},
          feat \in [found : BOOLEAN, changeable : BOOLEAN,
                    effects : {{}, {"IMMEDIATE"}, {"RESET"}, {"BACKGROUND"},
                               {"RESERVED"}, {"IMMEDIATE", "RESET"}}],
          op_size \in {SetHdrSize, SetHdrSize + 1, 2 * MaxPayload - SetHdrSize},
          fail \in {"none", "in", "copy", "out", "pi"} :
          LET rpc == [on |-> TRUE, scope |-> scope, uuid |-> uuid,
                      feat |-> feat, op_size |-> op_size, fail |-> fail]
              refused(rc) == [FxInit EXCEPT !.op = "rpc", !.pc = "done",
                                            !.rc = rc, !.rpc = rpc]
          IN  fx' = IF ~cxlctl_validate_set_features(feat, scope)
                    THEN refused("EINVAL")
                    ELSE IF op_size <= SetHdrSize THEN refused("EINVAL")
                    ELSE IF fail = "in" THEN refused("ENOMEM")
                    ELSE IF fail = "copy" THEN refused("EFAULT")
                    ELSE IF is_cxl_feature_exclusive_by_uuid(uuid)
                    THEN refused("EPERM")
                    ELSE IF fail = "out" THEN refused("ENOMEM")
                    ELSE IF fail = "pi"
                            /\ cxl_feature_enabled(CXL_MBOX_OP_SET_FEATURE)
                    THEN [FxInit EXCEPT !.op = "set", !.pc = "oops",
                                        !.rpc = rpc]
                    ELSE [SetCall(op_size - SetHdrSize, 0, 0) EXCEPT
                             !.rpc = rpc]
    /\ UNCHANGED <<mbox, dev, seen>>
    /\ UNCHANGED rasVars
    /\ UNCHANGED regVars

\* ------------------------------------------------- the feature directory
\* Mailboxes that hold the response header and 0 .. MaxPage entries, and
\* the command sets of the devices enumerated.
EnumPayloads ==
    {SupFeatsHdrSize + FeatEntrySize * m + FeatEntrySize - 1 : m \in 0 .. MaxPage}
EnumCmdSets ==
    {{},
     {CXL_MBOX_OP_GET_FEATURE, CXL_MBOX_OP_SET_FEATURE},
     {CXL_MBOX_OP_GET_SUPPORTED_FEATURES},
     {CXL_MBOX_OP_GET_SUPPORTED_FEATURES, CXL_MBOX_OP_GET_FEATURE},
     {CXL_MBOX_OP_GET_SUPPORTED_FEATURES, CXL_MBOX_OP_GET_FEATURE,
      CXL_MBOX_OP_SET_FEATURE}}

\* The agent's directory: the entry at index i (its id, and whether its
\* uuid is one of the exclusive features), and the entries of a page of n
\* entries from index start.
AgentEntry(i) == [id |-> i + 1, exclusive |-> i % 2 = 0]
AgentPage(start, n) == [j \in 1 .. n |-> AgentEntry(start + j - 1)]
\* What the memory kvmalloc returns may hold in every entry.
HeapEntries == {[id |-> 0, exclusive |-> FALSE], AgentEntry(MaxFeats - 1)}
\* The answers to a page request that offers room for copy entries: an
\* output size from min_out to size_out and a num_entries.
PageResponses(copy) ==
    {[size_out |-> s, num_entries |-> e] :
        s \in {SupFeatsHdrSize} \cup
              {SupFeatsHdrSize + FeatEntrySize * n : n \in 1 .. copy} \cup
              {SupFeatsHdrSize + FeatEntrySize * n - 1 : n \in 1 .. copy},
        e \in 0 .. copy + 1}

is_cxl_feature_exclusive(entry) == entry.exclusive

\* enumerate_feature_cmds(): the cap the feature_cmds bitmap gives.
enumerate_feature_cmds ==
    IF ~cxl_feature_enabled(CXL_MBOX_OP_GET_SUPPORTED_FEATURES) THEN 0
    ELSE IF ~cxl_feature_enabled(CXL_MBOX_OP_GET_FEATURE) THEN 0
    ELSE IF ~cxl_feature_enabled(CXL_MBOX_OP_SET_FEATURE) THEN CXL_FEATURES_RO
    ELSE CXL_FEATURES_RW

\* Variant of NoDirectory that always goes on to the count request.
NoDirectory_Never(cap) == FALSE

\* if (cxlfs->cap < CXL_FEATURES_RO) return -EOPNOTSUPP;
NoDirectory(cap) == cap < CXL_FEATURES_RO

\* Variant of NoFeatures that goes on with a count of 0.
NoFeatures_Never(count) == FALSE

\* if (count == 0) return -ENOENT;
NoFeatures(count) == count = 0

\* Variant of PageBad without the comparison of num_entries with the bytes
\* returned.
PageBad_SizeOnly(size_out, num_entries) ==
    \/ size_out <= SupFeatsHdrSize
    \/ (size_out - SupFeatsHdrSize) % FeatEntrySize # 0

\* Variant of PageBad that takes a response of the header alone.
PageBad_EmptyOk(size_out, num_entries) ==
    \/ size_out < SupFeatsHdrSize
    \/ (size_out - SupFeatsHdrSize) % FeatEntrySize # 0
    \/ num_entries * FeatEntrySize # size_out - SupFeatsHdrSize

\* The three checks of a page response that end in return -ENXIO.
PageBad(size_out, num_entries) ==
    \/ size_out <= SupFeatsHdrSize
    \/ (size_out - SupFeatsHdrSize) % FeatEntrySize # 0
    \/ num_entries * FeatEntrySize # size_out - SupFeatsHdrSize

\* Variant of Shortfall that forgets the entries a page did not return.
Shortfall_Dropped(copy_feats, num_entries) == 0

\* remain_feats += copy_feats - num_entries;
Shortfall(copy_feats, num_entries) == copy_feats - num_entries

\* entry++ after the memcpy of a page of num_entries entries.
NextEntry(entry, num_entries) == entry + 1

\* devm_cxl_add_features(cxlmd) up to the count request: the state is
\* allocated, enumerate_feature_cmds() sets its cap, and
\* get_supported_features() looks at it.
CallAdd ==
    /\ fx.pc = "idle"
    /\ LET cap == enumerate_feature_cmds
           call == [FxInit EXCEPT !.op = "enum", !.en.cap = cap]
       IN  IF NoDirectory(cap)
           THEN fx' = [call EXCEPT !.pc = "done", !.rc = "EOPNOTSUPP"]
           ELSE fx' = [call EXCEPT !.pc = "enum_count"]
    /\ UNCHANGED <<mbox, dev, seen>>
    /\ UNCHANGED rasVars
    /\ UNCHANGED regVars

\* devm_cxlfs_allocate() returns NULL.
CallAddNoMem ==
    /\ fx.pc = "idle"
    /\ fx' = [FxInit EXCEPT !.op = "enum", !.pc = "done", !.rc = "ENOMEM"]
    /\ UNCHANGED <<mbox, dev, seen>>
    /\ UNCHANGED rasVars
    /\ UNCHANGED regVars

\* The command of cxl_get_supported_features_count().
CountCmd ==
    [opcode |-> CXL_MBOX_OP_GET_SUPPORTED_FEATURES,
     count |-> SupFeatsHdrSize, start_idx |-> 0,
     size_out |-> SupFeatsHdrSize, min_out |-> SupFeatsHdrSize]

\* The count request fails: count < 0, return -ENXIO.
EnumCountFails ==
    /\ fx.pc = "enum_count"
    /\ \E f \in ChannelFailures :
          fx' = [Issued(CountCmd) EXCEPT
                    !.pc = "done", !.rc = "ENXIO", !.en.counted = TRUE,
                    !.failed = f, !.stopped = TRUE]
    /\ UNCHANGED <<mbox, dev, seen>>
    /\ UNCHANGED rasVars
    /\ UNCHANGED regVars

\* The agent reports K features; with K > 0 the entries and the response
\* buffer are allocated, the entries holding heap everywhere.
EnumCount(K, heap) ==
    /\ fx.pc = "enum_count"
    /\ LET got == [Issued(CountCmd) EXCEPT !.en.counted = TRUE, !.en.count = K]
       IN  IF NoFeatures(K)
           THEN fx' = [got EXCEPT !.pc = "done", !.rc = "ENOENT"]
           ELSE fx' = [got EXCEPT
                         !.pc = "enum_page",
                         !.en.ents = [i \in 1 .. K |-> heap],
                         !.en.max_feats =
                             (mbox.payload_size - SupFeatsHdrSize)
                                 \div FeatEntrySize,
                         !.en.entry = 0, !.en.start = 0,
                         !.en.remain_feats = K]
    /\ UNCHANGED <<mbox, dev, seen>>
    /\ UNCHANGED rasVars
    /\ UNCHANGED regVars

\* The agent reports K > 0 features and one of the two kvmalloc() fails.
EnumCountNoMem(K) ==
    /\ fx.pc = "enum_count"
    /\ K > 0
    /\ fx' = [Issued(CountCmd) EXCEPT
                 !.en.counted = TRUE, !.en.count = K,
                 !.pc = "done", !.rc = "ENOMEM"]
    /\ UNCHANGED <<mbox, dev, seen>>
    /\ UNCHANGED rasVars
    /\ UNCHANGED regVars

\* The entries the next page asks for.
CopyFeats ==
    IF fx.en.remain_feats > fx.en.max_feats THEN fx.en.max_feats
    ELSE fx.en.remain_feats

\* The command of one iteration of the loop.
PageCmd ==
    [opcode |-> CXL_MBOX_OP_GET_SUPPORTED_FEATURES,
     count |-> SupFeatsHdrSize + FeatEntrySize * CopyFeats,
     start_idx |-> cpu_to_le16(fx.en.start),
     size_out |-> SupFeatsHdrSize + FeatEntrySize * CopyFeats,
     min_out |-> SupFeatsHdrSize]

\* What the loop asked for and took of a page: the request, remain_feats
\* once the request is made up, and the answer.
PageLog(r) ==
    [start_idx |-> PageCmd.start_idx, copy_feats |-> CopyFeats,
     remain_feats |-> fx.en.remain_feats - CopyFeats,
     size_out |-> r.size_out, num_entries |-> r.num_entries]

\* One iteration fails: return rc.
EnumPageFails ==
    /\ fx.pc = "enum_page"
    /\ \E f \in ChannelFailures :
          fx' = [Issued(PageCmd) EXCEPT
                    !.pc = "done", !.rc = f.rc,
                    !.en.pages = Append(@, PageLog([size_out |-> 0,
                                                    num_entries |-> 0])),
                    !.failed = f, !.stopped = TRUE]
    /\ UNCHANGED <<mbox, dev, seen>>
    /\ UNCHANGED rasVars
    /\ UNCHANGED regVars

\* One iteration in which the command succeeds with the answer r; after the
\* last one the state is filled in and devm_add_action_or_reset() returns
\* add_rc, on which devm_cxl_add_features() attaches the state or frees it.
EnumPage(r, add_rc) ==
    /\ fx.pc = "enum_page"
    /\ r \in PageResponses(CopyFeats)
    /\ LET copy_feats == CopyFeats
           taken == fx.en.remain_feats - copy_feats
           got == [Issued(PageCmd) EXCEPT !.en.pages = Append(@, PageLog(r))]
           num_entries == r.num_entries
           page == AgentPage(fx.en.start, num_entries)
           ents == [i \in 1 .. Len(fx.en.ents) |->
                      IF i > fx.en.entry /\ i <= fx.en.entry + num_entries
                      THEN page[i - fx.en.entry] ELSE fx.en.ents[i]]
           user_feats == IF is_cxl_feature_exclusive(ents[fx.en.entry + 1])
                         THEN fx.en.user_feats ELSE fx.en.user_feats + 1
           remain_feats == taken + Shortfall(copy_feats, num_entries)
           more == [got EXCEPT
                      !.en.ents = ents, !.en.user_feats = user_feats,
                      !.en.entry = NextEntry(@, num_entries),
                      !.en.remain_feats = remain_feats,
                      !.en.start = @ + num_entries]
       IN  IF PageBad(r.size_out, r.num_entries)
           THEN fx' = [got EXCEPT !.pc = "done", !.rc = "ENXIO"]
           ELSE IF remain_feats # 0
           THEN fx' = more
           ELSE fx' = [more EXCEPT
                         !.pc = "done", !.rc = add_rc,
                         !.en.num_features = fx.en.count,
                         !.en.num_user_features = user_feats,
                         !.en.has_entries = TRUE,
                         !.en.entries = IF add_rc = "OK" THEN ents ELSE <<>>,
                         !.en.attached = add_rc = "OK"]
    /\ UNCHANGED <<mbox, dev, seen>>
    /\ UNCHANGED rasVars
    /\ UNCHANGED regVars

EnumSteps ==
    \/ EnumCountFails
    \/ \E K \in 0 .. MaxFeats, heap \in HeapEntries : EnumCount(K, heap)
    \/ \E K \in 0 .. MaxFeats : EnumCountNoMem(K)
    \/ EnumPageFails
    \/ \E r \in PageResponses(MaxPage), add_rc \in {"OK", "ENOMEM"} :
          EnumPage(r, add_rc)

\* ------------------------------------------------ the registry of channels
\* The first entry of ras2_pcc_subspaces with the id, or 0.
\* list_for_each_entry(...) if (pcc_subspace->pcc_subspace_id == id)
Lookup(id) ==
    LET hits == {i \in 1 .. Len(ras2_pcc_subspaces) :
                    subspace[ras2_pcc_subspaces[i]].pcc_subspace_id = id}
    IN  IF hits = {} THEN 0
        ELSE ras2_pcc_subspaces[CHOOSE i \in hits : \A j \in hits : i <= j]

\* Variant of RefDown that takes every release for the last.
RefDown_ToZero(ref_count) == 0

\* if (pcc_subspace->ref_count > 0) pcc_subspace->ref_count--;
RefDown(ref_count) == IF ref_count > 0 THEN ref_count - 1 ELSE ref_count

\* ras2_register_pcc_channel(dev, ctx, id) called for user u.
CallRegister(u, id) ==
    /\ usr[u].pc = "idle"
    /\ ~usr[u].bound
    /\ usr' = [usr EXCEPT ![u] =
                 IF id < 0
                 THEN [@ EXCEPT !.pc = "done", !.id = id, !.ret = "EINVAL"]
                 ELSE [@ EXCEPT !.pc = "lookup", !.id = id, !.ret = "none"]]
    /\ UNCHANGED <<ras2_pcc_subspaces, subspace>>
    /\ UNCHANGED rasVars
    /\ UNCHANGED cxlVars
    /\ UNCHANGED sctx

\* The search of the list under ras2_pcc_subspace_lock: a subspace with the
\* id is shared, ctx->pcc_subspace points to it and its ref_count (u16)
\* goes up; with none the lock is dropped and a new one is set up.
RegLookup(u) ==
    /\ usr[u].pc = "lookup"
    /\ ras2_pcc_subspace_lock = 0
    /\ LET o == Lookup(usr[u].id)
       IN  IF o # 0
           THEN /\ subspace' = [subspace EXCEPT
                                  ![o].ref_count = (@ + 1) % 65536]
                /\ usr' = [usr EXCEPT ![u].pc = "devm",
                                      ![u].pcc_subspace = o,
                                      ![u].bound = TRUE, ![u].ret = "OK"]
           ELSE /\ usr' = [usr EXCEPT ![u].pc = "alloc"]
                /\ UNCHANGED subspace
    /\ UNCHANGED ras2_pcc_subspaces
    /\ UNCHANGED rasVars
    /\ UNCHANGED cxlVars
    /\ UNCHANGED sctx

\* kcalloc() and pcc_mbox_request_channel(): either fails and the call
\* returns its error (the object freed again), or the object is set up with
\* its channel.
RegAlloc(u, err) ==
    /\ usr[u].pc = "alloc"
    /\ IF err = "OK"
       THEN /\ Len(subspace) < MaxAllocs
            /\ subspace' = Append(subspace,
                              [pcc_subspace_id |-> usr[u].id, ref_count |-> 0,
                               pcc_chan |-> TRUE, freed |-> FALSE])
            /\ usr' = [usr EXCEPT ![u].pc = "add",
                                  ![u].new = Len(subspace) + 1]
       ELSE /\ usr' = [usr EXCEPT ![u].pc = "done", ![u].ret = err]
            /\ UNCHANGED subspace
    /\ UNCHANGED ras2_pcc_subspaces
    /\ UNCHANGED rasVars
    /\ UNCHANGED cxlVars
    /\ UNCHANGED sctx

\* list_add() and ref_count++ under ras2_pcc_subspace_lock, then
\* ctx->pcc_subspace = pcc_subspace; return 0.
RegAdd(u) ==
    /\ usr[u].pc = "add"
    /\ ras2_pcc_subspace_lock = 0
    /\ ras2_pcc_subspaces' = <<usr[u].new>> \o ras2_pcc_subspaces
    /\ subspace' = [subspace EXCEPT ![usr[u].new].ref_count = (@ + 1) % 65536]
    /\ usr' = [usr EXCEPT ![u].pc = "devm", ![u].pcc_subspace = usr[u].new,
                          ![u].bound = TRUE, ![u].ret = "OK"]
    /\ UNCHANGED rasVars
    /\ UNCHANGED cxlVars
    /\ UNCHANGED sctx

\* devm_add_action_or_reset() in devm_ras2_register_pcc_channel(): the user
\* is registered, or the action could not be added and the channel is
\* unregistered at once.
RegDevm(u, ok) ==
    /\ usr[u].pc = "devm"
    /\ usr' = [usr EXCEPT ![u].pc = IF ok THEN "idle" ELSE "unregister",
                          ![u].ret = IF ok THEN "OK" ELSE "ENOMEM"]
    /\ UNCHANGED <<ras2_pcc_subspaces, subspace>>
    /\ UNCHANGED rasVars
    /\ UNCHANGED cxlVars
    /\ UNCHANGED sctx

\* The device of a registered user goes away: devm runs
\* ras2_unregister_pcc_channel(ctx).
CallUnregister(u) ==
    /\ usr[u].pc = "idle"
    /\ usr[u].bound
    /\ usr' = [usr EXCEPT ![u].pc = "unregister"]
    /\ UNCHANGED <<ras2_pcc_subspaces, subspace>>
    /\ UNCHANGED rasVars
    /\ UNCHANGED cxlVars
    /\ UNCHANGED sctx

\* ras2_unregister_pcc_channel(ctx): ref_count goes down under the lock and
\* at 0 the subspace leaves the list, its channel is freed and it is freed.
\* Reading a subspace that was freed already is a use after free.
Unregister(u) ==
    /\ usr[u].pc = "unregister"
    /\ ras2_pcc_subspace_lock = 0
    /\ LET o == usr[u].pcc_subspace
           gone == [usr EXCEPT ![u].pc = "done", ![u].bound = FALSE]
       IN  IF o = 0
           THEN /\ usr' = gone
                /\ UNCHANGED <<ras2_pcc_subspaces, subspace>>
           ELSE IF subspace[o].freed
           THEN /\ usr' = [usr EXCEPT ![u].pc = "oops"]
                /\ UNCHANGED <<ras2_pcc_subspaces, subspace>>
           ELSE IF ~subspace[o].pcc_chan
           THEN /\ usr' = gone
                /\ UNCHANGED <<ras2_pcc_subspaces, subspace>>
           ELSE LET ref_count == RefDown(subspace[o].ref_count)
                IN  /\ usr' = gone
                    /\ IF ref_count = 0
                       THEN /\ ras2_pcc_subspaces' =
                               SelectSeq(ras2_pcc_subspaces, LAMBDA x : x # o)
                            /\ subspace' = [subspace EXCEPT
                                              ![o].ref_count = ref_count,
                                              ![o].pcc_chan = FALSE,
                                              ![o].freed = TRUE]
                       ELSE /\ subspace' = [subspace EXCEPT
                                              ![o].ref_count = ref_count]
                            /\ UNCHANGED ras2_pcc_subspaces
    /\ UNCHANGED rasVars
    /\ UNCHANGED cxlVars
    /\ UNCHANGED sctx

\* The caller has the result of its call; its context is gone with its
\* device unless it is registered.
RegReturn(u) ==
    /\ usr[u].pc = "done"
    /\ usr' = [usr EXCEPT ![u] = [pc |-> "idle", id |-> 0, new |-> 0,
                                  pcc_subspace |-> 0, bound |-> FALSE,
                                  ret |-> "none"]]
    /\ UNCHANGED <<ras2_pcc_subspaces, subspace>>
    /\ UNCHANGED rasVars
    /\ UNCHANGED cxlVars
    /\ UNCHANGED sctx

\* ------------------------------------------- the patrol scrub handlers
\* The handlers of one context.  Each runs under guard(mutex)(&ras2_ctx->lock)
\* from its entry to its return, so a run is one step; ras2_send_pcc_cmd is
\* the function modelled above and appears by its result, 0 or an error of
\* the channel or of the agent, and the agent by what it reports: the
\* running flag and the actual address range.
SendRets == {"OK", "EIO", "EBUSY"}
AgentRanges == {0, 1}

\* ras2_update_patrol_scrub_params_cache(ras2_ctx) on the context c, the
\* request returning u and the agent reporting the range (b, s).
ras2_update_patrol_scrub_params_cache(c, u, b, s) ==
    LET asked == [c EXCEPT !.sent = Append(@, RAS2_GET_PATROL_PARAMETERS),
                           !.ret = u]
    IN  IF u = "OK" /\ ~c.bg
        THEN [asked EXCEPT !.base = b, !.size = s]
        ELSE asked

\* ras2_probe from the allocation of the context on: the first read of the
\* parameters fills the cache, or the probe fails.
ras2_probe ==
    /\ sctx.pc = "probe"
    /\ \E u \in SendRets, b \in AgentRanges, s \in AgentRanges :
          sctx' = [ras2_update_patrol_scrub_params_cache(sctx, u, b, s)
                      EXCEPT !.pc = IF u = "OK" THEN "ready" ELSE "failed",
                             !.sent = <<>>, !.ret = "none"]
    /\ UNCHANGED <<ras2_pcc_subspaces, subspace, usr>>
    /\ UNCHANGED rasVars
    /\ UNCHANGED cxlVars

\* Variant of ScrubBusy that looks at the background flag only.
ScrubBusy_FlagOnly(running) == sctx.bg

\* if (ras2_ctx->bg || running) return -EBUSY;
ScrubBusy(running) == sctx.bg \/ running

\* ras2_hw_scrub_set_enabled_bg(dev, drv_data, enable): the status query
\* returns q and reports `running`, the START or STOP request returns r, the
\* read of the parameters after it returns u.
ras2_hw_scrub_set_enabled_bg ==
    /\ sctx.pc = "ready"
    /\ \E enable \in BOOLEAN, q \in SendRets, running \in BOOLEAN,
          r \in SendRets, u \in SendRets :
          LET run == [sctx EXCEPT !.op = "bg", !.enable = enable,
                                  !.bg0 = sctx.bg, !.query = q,
                                  !.running = (q = "OK" /\ running),
                                  !.sent = <<RAS2_GET_PATROL_PARAMETERS>>,
                                  !.ret = q]
              cmd == IF enable THEN RAS2_START_PATROL_SCRUBBER
                     ELSE RAS2_STOP_PATROL_SCRUBBER
              rung == [run EXCEPT !.sent = Append(@, cmd), !.ret = r]
          IN  sctx' =
                IF q # "OK" THEN run
                ELSE IF enable /\ ScrubBusy(running)
                THEN [run EXCEPT !.ret = "EBUSY"]
                ELSE IF ~enable /\ ~sctx.bg
                THEN [run EXCEPT !.ret = "EPERM"]
                ELSE IF ~enable /\ ~sctx.bg /\ running
                THEN [run EXCEPT !.ret = "EBUSY"]
                ELSE IF r # "OK" THEN rung
                ELSE IF enable
                THEN ras2_update_patrol_scrub_params_cache(
                         [rung EXCEPT !.bg = TRUE], u, sctx.base, sctx.size)
                ELSE [ras2_update_patrol_scrub_params_cache(
                         rung, u, sctx.base, sctx.size) EXCEPT !.bg = FALSE]
    /\ UNCHANGED <<ras2_pcc_subspaces, subspace, usr>>
    /\ UNCHANGED rasVars
    /\ UNCHANGED cxlVars

\* ras2_hw_scrub_set_enabled_od(dev, drv_data, enable), likewise, the agent
\* reporting the range (b, s) to the read of the parameters that ends it.
ras2_hw_scrub_set_enabled_od ==
    /\ sctx.pc = "ready"
    /\ \E enable \in BOOLEAN, q \in SendRets, running \in BOOLEAN,
          r \in SendRets, u \in SendRets,
          b \in AgentRanges, s \in AgentRanges :
          LET entry == [sctx EXCEPT !.op = "od", !.enable = enable,
                                    !.bg0 = sctx.bg, !.query = "none",
                                    !.running = FALSE, !.sent = <<>>,
                                    !.ret = "EBUSY"]
              run == [entry EXCEPT !.query = q,
                                   !.running = (q = "OK" /\ running),
                                   !.sent = <<RAS2_GET_PATROL_PARAMETERS>>,
                                   !.ret = q]
              cmd == IF enable THEN RAS2_START_PATROL_SCRUBBER
                     ELSE RAS2_STOP_PATROL_SCRUBBER
              rung == [run EXCEPT !.sent = Append(@, cmd), !.ret = r]
          IN  sctx' =
                IF sctx.bg THEN entry
                ELSE IF q # "OK" THEN run
                ELSE IF enable /\ (sctx.base = 0 \/ sctx.size = 0)
                THEN [run EXCEPT !.ret = "ERANGE"]
                ELSE IF enable /\ running
                THEN [run EXCEPT !.ret = "EBUSY"]
                ELSE IF ~enable /\ ~running
                THEN [run EXCEPT !.ret = "OK"]
                ELSE IF r # "OK" THEN rung
                ELSE ras2_update_patrol_scrub_params_cache(rung, u, b, s)
    /\ UNCHANGED <<ras2_pcc_subspaces, subspace, usr>>
    /\ UNCHANGED rasVars
    /\ UNCHANGED cxlVars

\* --------------------------------------------------------- specifications
\* Threads T call ras2_send_pcc_cmd on contexts X with opcodes K.
SendCalls(T, X, K) == \E t \in T, x \in X, k \in K : CallSend(t, x, k)

\* The steps of ras2_send_pcc_cmd in threads T.
SendSteps(T) ==
    \E t \in T :
       \/ Lock(t) \/ PrePoll(t) \/ Mrtt(t) \/ Wake(t) \/ Mpar(t)
       \/ WriteCmd(t) \/ ClearStatus(t) \/ RingOk(t) \/ RingFail(t)
       \/ PostPoll(t)

\* The scrub handlers run by threads T on contexts X, apart from the steps of
\* their calls of ras2_send_pcc_cmd.
ScrubSteps(T, X, P) ==
    \E t \in T :
       \/ \E x \in X, p \in P : CallScrub(t, x, p)
       \/ CtxLock(t) \/ WriteParams(t) \/ ScrubNext(t)

\* The agent behind subspaces S, reporting the status codes C on errors.
AgentSteps(S, C) ==
    \E c \in S :
       \/ AgentComplete(c)
       \/ \E code \in C, wc \in BOOLEAN : AgentError(c, code, wc)

\* One subspace, one caller at a time (the mutex serialises the calls
\* anyway), every opcode, every MRTT and MPAR setting, every timing of the
\* calls and of the agent.
Init ==
    /\ InitWith(0 .. MsWrapTicks - 1,
                {[c \in Chans |-> IF c = 1 THEN m ELSE 0] : m \in {0, MrttTicks}},
                {[c \in Chans |-> IF c = 1 THEN n ELSE 0] : n \in {0, MparCap}})
    /\ NoMailbox

Next ==
    \/ SendCalls({1}, {1}, Cmds)
    \/ SendSteps({1})
    \/ Ack(1)
    \/ Tick
    \/ AgentSteps({1}, {0, ACPI_RAS2_BUSY})

Spec == Init /\ [][Next]_vars

\* One subspace without MRTT and MPAR, one caller, an agent that reports
\* every status code.
InitCodes ==
    /\ InitWith({0}, {[c \in Chans |-> 0]}, {[c \in Chans |-> 0]})
    /\ NoMailbox

NextCodes ==
    \/ SendCalls({1}, {1}, Cmds)
    \/ SendSteps({1})
    \/ Ack(1)
    \/ Tick
    \/ AgentSteps({1}, CapCodes)

SpecCodes == InitCodes /\ [][NextCodes]_vars

\* Two threads, each running scrub handlers on contexts 1 and 2, which share
\* subspace 1; the agent completes the commands it is rung for, if it answers.
InitLock ==
    /\ InitWith({0}, {[c \in Chans |-> 0]}, {[c \in Chans |-> 0]})
    /\ NoMailbox

NextLock ==
    \/ SendSteps(Threads)
    \/ ScrubSteps(Threads, {1, 2},
                  {RAS2_START_PATROL_SCRUBBER, RAS2_STOP_PATROL_SCRUBBER})
    \/ Tick
    \/ AgentComplete(1)

SpecLock == InitLock /\ [][NextLock]_vars

\* Two rate-limited subspaces without MRTT, one caller that issues commands
\* on either, and agents that complete the commands or stay silent.
InitTwo ==
    /\ InitWith({0}, {[c \in Chans |-> 0]}, {[c \in Chans |-> MparCap]})
    /\ NoMailbox

NextTwo ==
    \/ SendCalls({1}, {1, 3}, {RAS2_PCC_CMD_EXEC})
    \/ SendSteps({1})
    \/ Ack(1)
    \/ Tick
    \/ \E c \in Chans : AgentComplete(c)

SpecTwo == InitTwo /\ [][NextTwo]_vars

\* Two callers of ras2_send_pcc_cmd on one subspace with an MRTT, and an
\* agent that answers when it likes or never.  Time passes; a thread that can
\* take a step takes it in the end, a caller takes the result of its call,
\* and a caller that waits for the mutex gets it in the end if it is free
\* again and again (the mutex hands over to its waiters).
InitLive ==
    /\ InitWith({0}, {[c \in Chans |-> IF c = 1 THEN MrttTicks ELSE 0]},
                {[c \in Chans |-> 0]})
    /\ NoMailbox

NextLive ==
    \/ SendCalls(Threads, {1}, {RAS2_PCC_CMD_EXEC})
    \/ SendSteps(Threads)
    \/ \E t \in Threads : Ack(t)
    \/ Tick
    \/ AgentSteps({1}, {ACPI_RAS2_BUSY})

SpecLive ==
    /\ InitLive
    /\ [][NextLive]_vars
    /\ WF_vars(Tick)
    /\ \A t \in Threads :
          /\ SF_vars(Lock(t))
          /\ WF_vars(PrePoll(t) \/ Mrtt(t) \/ Wake(t) \/ Mpar(t) \/ WriteCmd(t)
                       \/ ClearStatus(t) \/ RingOk(t) \/ RingFail(t)
                       \/ PostPoll(t))
          /\ WF_vars(Ack(t))

\* One CXL device with a mailbox of every size in PayloadSizes, with or
\* without the feature commands, an agent that answers every command as it
\* likes, and the callers of cxl_get_feature.  The RAS2 channel is idle.
InitGet ==
    /\ InitWith({0}, {[c \in Chans |-> 0]}, {[c \in Chans |-> 0]})
    /\ MboxInit(PayloadSizes,
                {{}, {CXL_MBOX_OP_GET_FEATURE, CXL_MBOX_OP_SET_FEATURE}})

NextGet ==
    \/ GetCalls
    \/ GetSteps
    \/ FeatReturn

SpecGet == InitGet /\ [][NextGet]_vars

\* The same device and agent, and the callers of cxl_set_feature, who read
\* back what they have set.
InitSet ==
    /\ InitWith({0}, {[c \in Chans |-> 0]}, {[c \in Chans |-> 0]})
    /\ MboxInit(PayloadSizes,
                {{}, {CXL_MBOX_OP_GET_FEATURE, CXL_MBOX_OP_SET_FEATURE}})

NextSet ==
    \/ SetCalls
    \/ SetSteps
    \/ ReadBack
    \/ GetSteps
    \/ FeatReturn

SpecSet == InitSet /\ [][NextSet]_vars

\* User space sends Set Feature RPCs for exclusive and other features, in
\* every scope, to a device whose directory has the feature or not, with
\* every kind of entry.
InitRpc ==
    /\ InitWith({0}, {[c \in Chans |-> 0]}, {[c \in Chans |-> 0]})
    /\ MboxInit({MaxPayload},
                {{}, {CXL_MBOX_OP_GET_FEATURE, CXL_MBOX_OP_SET_FEATURE}})

NextRpc ==
    \/ CallRpcSet
    \/ SetSteps
    \/ FeatReturn

SpecRpc == InitRpc /\ [][NextRpc]_vars

\* A device is attached and devm_cxl_add_features() enumerates its feature
\* directory.
InitEnum ==
    /\ InitWith({0}, {[c \in Chans |-> 0]}, {[c \in Chans |-> 0]})
    /\ MboxInit(EnumPayloads, EnumCmdSets)

NextEnum ==
    \/ CallAdd
    \/ CallAddNoMem
    \/ EnumSteps
    \/ FeatReturn

SpecEnum == InitEnum /\ [][NextEnum]_vars

\* Users register PCC channels and release them, each in its own thread.
InitReg ==
    /\ InitWith({0}, {[c \in Chans |-> 0]}, {[c \in Chans |-> 0]})
    /\ NoMailbox

NextReg ==
    \E u \in Users :
       \/ \E id \in {-1, 0, 1} : CallRegister(u, id)
       \/ RegLookup(u)
       \/ \E err \in {"OK", "ENOMEM", "ENODEV"} : RegAlloc(u, err)
       \/ RegAdd(u)
       \/ \E ok \in BOOLEAN : RegDevm(u, ok)
       \/ CallUnregister(u)
       \/ Unregister(u)
       \/ RegReturn(u)

SpecReg == InitReg /\ [][NextReg]_vars

\* One scrub context from its probe on, its two enable handlers called in
\* any order with any argument, every result of the requests and every
\* report of the agent.
InitScrub ==
    /\ InitWith({0}, {[c \in Chans |-> 0]}, {[c \in Chans |-> 0]})
    /\ NoMailbox

NextScrub ==
    \/ ras2_probe
    \/ ras2_hw_scrub_set_enabled_bg
    \/ ras2_hw_scrub_set_enabled_od

SpecScrub == InitScrub /\ [][NextScrub]_vars

\* ------------------------------------------------------------------ claims
\* C1: at most one command is in flight on a subspace.  For every interleaving
\* of threads that call ras2_send_pcc_cmd through contexts sharing a subspace,
\* no two of them are at the same time between the write of the command word
\* and the end of their completion poll.
C1_OneCommandInFlight ==
    LET InFlight(t) == th[t].pc \in {"clr_status", "ring", "post", "post_sleep"}
    IN  \A t1, t2 \in Threads :
           (t1 # t2 /\ chan(t1) = chan(t2)) => ~(InFlight(t1) /\ InFlight(t2))

\* A thread polls for the completion of its command while another thread, on
\* another context of the same subspace, waits for the mutex.
C1_Witness ==
    \E t1, t2 \in Threads :
       /\ th[t1].pc = "post_sleep"
       /\ th[t2].pc = "lock"
       /\ th[t1].ctx # th[t2].ctx
       /\ chan(t1) = chan(t2)

\* C2: the exchange buffer is never concurrently written.  When the doorbell
\* of a scrub operation rings, the parameters in the shared region are those
\* its caller wrote: no other context wrote parameters in between.
C2_AgentSeesCallersParams ==
    \A t \in Threads :
       (th[t].op = "scrub" /\ th[t].rang) =>
           /\ th[t].sawWriter = th[t].ctx
           /\ th[t].sawPcmd = th[t].pcmd

C4_RefusedWithoutWaiting ==
    \A t \in Threads : th[t].refused => ~th[t].preSlept /\ ~th[t].mrttWaited

\* C4 as the code has it: the refusal does not wait for the window to elapse.
\* The call returns in the step that finds the quota exhausted, with nothing
\* sent and no completion poll after the check; the poll of the ready check
\* and the MRTT delay come before the rate-limit check and may have blocked.
C4_RefusalEndsTheCall ==
    \A t \in Threads :
       (th[t].qChecked /\ th[t].qCount = 0 /\ th[t].qDelta < WindowTicks) =>
           /\ th[t].pc = "done"
           /\ th[t].wake_left = 0
           /\ ~th[t].polledPost

\* A command refused for an exhausted quota after it waited out the MRTT.
C4_Witness ==
    \E t \in Threads :
       /\ th[t].refused
       /\ th[t].mrttWaited
       /\ hist.resets = 1
       /\ hist.admits = hist.cap

\* C5 as stated: between two refusals (or from the start to the first
\* refusal) either nothing is admitted or exactly N commands are.
C5_ExactlyNBetweenRefusals ==
    \A t \in Threads :
       th[t].refused => th[t].admAtRefusal \in {0, pcc_mpar[chan(t)]}

\* C5 as the code has it: a command whose check finds the quota counter at 0
\* a full window or more after the last reset is admitted; it restarts the
\* window and installs the quota N of its subspace, of which it takes one.
\* From each reset on, commands admitted plus quota left is N, and a command
\* is refused only with N admitted since the reset and less than a window
\* after it.
C5_ResetRestoresQuota ==
    /\ hist.resets = 1 => hist.admits + mpar_count = hist.cap
    /\ \A t \in Threads :
          /\ (th[t].qChecked /\ th[t].qCount = 0 /\ th[t].qDelta >= WindowTicks) =>
                 /\ ~th[t].refused
                 /\ th[t].pc = "wr_cmd" \/ th[t].wrote
          /\ (th[t].pc = "wr_cmd" /\ th[t].qChecked /\ th[t].qCount = 0) =>
                 /\ hist.cap = pcc_mpar[chan(t)]
                 /\ mpar_count = pcc_mpar[chan(t)] - 1
                 /\ since_reset = 0
          /\ th[t].refused =>
                 /\ th[t].qCount = 0
                 /\ th[t].qDelta < WindowTicks

\* A command that came a window after the reset of an exhausted quota was
\* admitted and has returned 0.
C5_Witness ==
    \E t \in Threads :
       /\ th[t].pc = "done"
       /\ th[t].reReset
       /\ th[t].qDelta >= WindowTicks
       /\ th[t].ret = "OK"

\* C6: with a rate limit N, at most N doorbells are rung on the subspace in
\* any interval of one window, whatever its start.
C6_RollingWindow ==
    \A c \in Chans : pcc_mpar[c] # 0 => Len(hist.sends[c]) <= pcc_mpar[c]

\* C7: with a minimum turnaround time T > 0, the doorbell of a command rings
\* at least T after the completion of the command before it.
C7_TurnaroundKept ==
    \A t \in Threads :
       (th[t].rang /\ pcc_mrtt[chan(t)] # 0 /\ th[t].prevCmpl >= 0) =>
           th[t].prevCmpl >= pcc_mrtt[chan(t)]

\* C8 as stated: whatever the opcode and the MRTT, a call whose doorbell the
\* agent never answers returns -EIO, after the deadline and at most one
\* polling interval past it.
C8_TimeoutAlways ==
    \A t \in Threads :
       (th[t].pc = "done" /\ th[t].rang /\ th[t].noAnswer) =>
           /\ th[t].ret = "EIO"
           /\ th[t].sinceRing > DeadlineTicks
           /\ th[t].sinceRing <= DeadlineTicks + PollTicks

\* C8 as the code has it: the call polls only if the opcode is
\* RAS2_PCC_CMD_EXEC or the MRTT is not zero.  Then an unanswered doorbell
\* gives -EIO, after the deadline and at most one polling sleep past it;
\* otherwise the call returns 0 at once, without polling.
C8_TimeoutWhenPolled ==
    \A t \in Threads :
       (th[t].pc = "done" /\ th[t].rang /\ th[t].noAnswer) =>
           IF th[t].cmd = RAS2_PCC_CMD_EXEC \/ pcc_mrtt[chan(t)] # 0
           THEN /\ th[t].ret = "EIO"
                /\ th[t].sinceRing > DeadlineTicks
                /\ th[t].sinceRing <= DeadlineTicks + PollTicks
           ELSE /\ th[t].ret = "OK"
                /\ th[t].sinceRing = 0
                /\ ~th[t].polledPost

\* An unanswered RAS2_PCC_CMD_EXEC has timed out.
C8_Witness ==
    \E t \in Threads :
       /\ th[t].pc = "done"
       /\ th[t].rang
       /\ th[t].noAnswer
       /\ th[t].cmd = RAS2_PCC_CMD_EXEC
       /\ th[t].ret = "EIO"

\* C9: the status code read on command-error is translated by the table
\* not-valid, not-supported -> -EPERM; busy -> -EBUSY; failed, aborted,
\* invalid-data -> -EINVAL; anything else, 0 included -> 0.
\* ras2_report_cap_error is this table for every code, and a call that ends
\* on a command-error returns the table's entry for the code it read.
C9_StatusTranslation ==
    LET table == [c \in CapCodes |->
                    CASE c = ACPI_RAS2_NOT_VALID -> "EPERM"
                      [] c = ACPI_RAS2_NOT_SUPPORTED -> "EPERM"
                      [] c = ACPI_RAS2_BUSY -> "EBUSY"
                      [] c = ACPI_RAS2_FAILED -> "EINVAL"
                      [] c = ACPI_RAS2_ABORTED -> "EINVAL"
                      [] c = ACPI_RAS2_INVALID_DATA -> "EINVAL"
                      [] OTHER -> "OK"]
    IN  /\ \A c \in CapCodes : ras2_report_cap_error(c) = table[c]
        /\ \A t \in Threads :
              (th[t].pc = "done" /\ th[t].errCap >= 0) =>
                  th[t].ret = table[th[t].errCap]

\* A call has returned -EBUSY for the agent's busy code.
C9_Witness ==
    \E t \in Threads :
       /\ th[t].pc = "done"
       /\ th[t].rang
       /\ th[t].errCap = ACPI_RAS2_BUSY
       /\ th[t].ret = "EBUSY"

\* C10: a timeout or a command-error leaves the subspace usable.  The call
\* that follows one that ended in -EIO or in a translated error does not time
\* out in the ready check, with neither status bit set, before its command
\* is written and its doorbell rung.
C10_UsableAfterFailure ==
    \A t \in Threads :
       (th[t].pc = "done" /\ th[t].prevFailed /\ th[t].preFailed) =>
           th[t].ret # "EIO"
\* C11: ras2_send_pcc_cmd never retries.  Within one call mbox_send_message()
\* is called at most once, and the call returns what that one attempt gave: the
\* transport error when the doorbell could not be rung, the translation of the
\* status code the agent reported when it answered with the error bit, success
\* when it answered with command-complete only; a call that returns success
\* rang the doorbell exactly once.
C11_NoRetry ==
    \A t \in Threads :
       /\ th[t].rings <= 1
       /\ th[t].pc = "done" =>
            /\ th[t].txFailed => th[t].ret = "ENOBUFS" /\ ~th[t].polledPost
            /\ (th[t].polledPost /\ th[t].errCap >= 0) =>
                   th[t].ret = ras2_report_cap_error(th[t].errCap)
            /\ th[t].ret = "OK" => th[t].rings = 1 /\ ~th[t].txFailed

\* A call has rung the doorbell once, the agent has answered with an error
\* that translates to a failure, and the call has returned it.
C11_Witness ==
    \E t \in Threads :
       /\ th[t].pc = "done"
       /\ th[t].rings = 1
       /\ th[t].polledPost
       /\ th[t].errCap = ACPI_RAS2_BUSY
       /\ th[t].ret = "EBUSY"

\* C12: cxl_get_feature succeeds only with all the bytes.  Whenever it
\* returns a non-zero count with return code SUCCESS, against an agent that
\* answered every command with between min_out and size_out bytes, the count
\* is feat_out_size.
C12_SuccessMeansAllBytes ==
    (fx.pc = "done" /\ fx.op = "get" /\ fx.count > 0 /\ fx.inRange
     /\ fx.return_code = CXL_MBOX_CMD_RC_SUCCESS)
    => fx.count = fx.size

\* C13: the count asked for in a Get Feature command is at most the mailbox
\* capacity less the 21 bytes of the request header.
C13_CountBelowCapacityLessHeader ==
    fx.last.opcode = CXL_MBOX_OP_GET_FEATURE
    => fx.last.count <= mbox.payload_size - 21

\* C13, amended: the count asked for in a Get Feature command is at least 1,
\* at most the mailbox capacity and at most the bytes still missing, and
\* the output size offered is at most the mailbox capacity.
C13_CountWithinCapacity ==
    fx.last.opcode = CXL_MBOX_OP_GET_FEATURE
    => /\ fx.last.count >= 1
       /\ fx.last.count <= mbox.payload_size
       /\ fx.last.count <= fx.size - fx.last.at
       /\ fx.last.size_out <= mbox.payload_size

\* A later command of a get asks for a whole mailbox.
C13_Witness ==
    /\ fx.last.opcode = CXL_MBOX_OP_GET_FEATURE
    /\ fx.last.at > 0
    /\ fx.last.count = mbox.payload_size

\* C14: a Get Feature command that succeeds without output ends the get.
\* Once a command of the call has come back with no bytes the call has
\* returned 0 and has issued no further command.
C14_ZeroOutputFails ==
    (fx.op = "get" /\ fx.zeroOut)
    => /\ fx.pc = "done"
       /\ fx.count = 0
       /\ ~fx.afterStop
       /\ fx.last.at = fx.done_size

\* After a chunk that arrived, a command has succeeded without output and
\* the get has returned 0, with the command's return code SUCCESS.
C14_Witness ==
    /\ fx.op = "get"
    /\ fx.pc = "done"
    /\ fx.zeroOut
    /\ fx.last.at > 0
    /\ fx.count = 0
    /\ fx.return_code = CXL_MBOX_CMD_RC_SUCCESS

\* C15: the first failed command ends the get.  Once a command of the call
\* has failed the call has returned 0, never the bytes received before,
\* *return_code is the return code of that command, and no further command
\* was issued.
C15_AbortOnFailure ==
    (fx.op = "get" /\ fx.failed.rc # "none")
    => /\ fx.pc = "done"
       /\ fx.count = 0
       /\ fx.return_code = fx.failed.return_code
       /\ ~fx.afterStop
       /\ fx.last.at = fx.done_size

\* After a chunk that arrived, a command has failed with the device busy.
C15_Witness ==
    /\ fx.op = "get"
    /\ fx.pc = "done"
    /\ fx.failed.return_code = "BUSY"
    /\ fx.last.at > 0
    /\ fx.count = 0
    /\ fx.return_code = "BUSY"

\* C16: get is idempotent.  A get does not change the agent's data; a get
\* with the arguments of the last successful get, into a buffer with other
\* contents, gives the same bytes when it succeeds, and it succeeds with all
\* the bytes when no command fails and the agent answers every command with
\* the count asked for.
C16_GetIdempotent ==
    (fx.op = "get" /\ fx.pc = "done")
    => /\ dev = fx.dev0
       /\ (seen.valid /\ seen.op = "get" /\ fx.count > 0 /\ ~fx.overrun)
             => fx.buf = seen.bytes
       /\ (seen.valid /\ seen.op = "get" /\ fx.exact
           /\ fx.failed.rc = "none" /\ fx.last.opcode # "none")
             => fx.count = fx.size

\* A get in several chunks, the offsets of which wrap, has been repeated.
C16_Witness ==
    /\ fx.op = "get"
    /\ fx.pc = "done"
    /\ seen.valid
    /\ seen.op = "get"
    /\ fx.count = fx.size
    /\ fx.size > 2 * mbox.payload_size
    /\ fx.offset > 0
    /\ fx.buf = seen.bytes

\* C17: round trip.  A get of what a successful set has stored, with no
\* failed command and an agent that answers every command with the count
\* asked for, succeeds and returns the data set, for every size from 0 on.
C17_RoundTrip ==
    (fx.op = "get" /\ fx.pc = "done" /\ seen.valid /\ seen.op = "set"
     /\ fx.failed.rc = "none" /\ fx.exact)
    => /\ fx.return_code = CXL_MBOX_CMD_RC_SUCCESS
       /\ fx.count = seen.size
       /\ fx.buf = seen.bytes

\* C17, amended: the same for every size from 1 on, of data that ends at or
\* below offset 2^16.
C17_RoundTripNonEmpty ==
    (fx.op = "get" /\ fx.pc = "done" /\ seen.valid /\ seen.op = "set"
     /\ fx.failed.rc = "none" /\ fx.exact
     /\ fx.size >= 1 /\ fx.offset + fx.size <= 65536)
    => /\ fx.return_code = CXL_MBOX_CMD_RC_SUCCESS
       /\ fx.count = seen.size
       /\ fx.buf = seen.bytes

\* Data that took more than three SET chunks and more than two GET chunks
\* has been read back.
C17_Witness ==
    /\ fx.op = "get"
    /\ fx.pc = "done"
    /\ seen.valid
    /\ seen.op = "set"
    /\ fx.exact
    /\ fx.count = seen.size
    /\ fx.size > 2 * mbox.payload_size
    /\ fx.buf = FeatData(fx.size)

\* C18: the phases at the boundary.  With D the mailbox capacity less the 32
\* bytes of the SET header, a successful set of D bytes sends one chunk with
\* phase Full, one of D + 1 bytes sends two chunks, Initiate with D bytes
\* and Finish with 1, and one of 3 * D bytes sends three chunks of D bytes,
\* Initiate, Continue, Finish.
C18_PhasesAtBoundary ==
    (fx.op = "set" /\ fx.pc = "done" /\ fx.rc = "OK")
    => LET D == mbox.payload_size - 32
           sent == [i \in 1 .. Len(fx.log) |->
                      <<fx.log[i].flags % 8, fx.log[i].len>>]
       IN  /\ fx.size = D => sent = << <<0, D>> >>
           /\ fx.size = D + 1 => sent = << <<1, D>>, <<3, 1>> >>
           /\ fx.size = 3 * D => sent = << <<1, D>>, <<2, D>>, <<3, D>> >>

\* A set of three times D bytes has succeeded.
C18_Witness ==
    /\ fx.op = "set"
    /\ fx.pc = "done"
    /\ fx.rc = "OK"
    /\ fx.size = 3 * (mbox.payload_size - 32)
    /\ Len(fx.log) = 3

\* C19: the smallest mailbox.  A set on a device with the Set Feature
\* command returns -ENOMEM exactly when the mailbox capacity is below
\* 32 + 10, and then it has issued no command and the agent's data are as
\* they were.
C19_MinimumCapacity ==
    (fx.op = "set" /\ fx.pc = "done")
    => /\ fx.rc = "ENOMEM" <=>
            (cxl_feature_enabled(CXL_MBOX_OP_SET_FEATURE)
             /\ mbox.payload_size < 32 + 10)
       /\ fx.rc = "ENOMEM" =>
            (fx.log = <<>> /\ fx.last.opcode = "none" /\ dev = fx.dev0)

\* A set of data that would fit has been refused by a mailbox of 41 bytes.
C19_Witness ==
    /\ fx.op = "set"
    /\ fx.pc = "done"
    /\ fx.rc = "ENOMEM"
    /\ mbox.payload_size = 41
    /\ fx.size = 1

\* C20: the caller's flags are in every chunk.  Every bit above the
\* data-transfer field that is set in the feat_flag of the call is set in
\* the flags of every SET command of the call.
C20_CallerFlagsInEveryChunk ==
    fx.op = "set"
    => \A i \in 1 .. Len(fx.log) : \A b \in 3 .. 31 :
          Bit(fx.arg_flag, b) => Bit(fx.log[i].flags, b)

\* A set with bit 4 in its flags has sent Initiate, Continue and Finish.
C20_Witness ==
    /\ fx.op = "set"
    /\ fx.pc = "done"
    /\ Bit(fx.arg_flag, 4)
    /\ Len(fx.log) >= 3
    /\ \A i \in 1 .. Len(fx.log) : Bit(fx.log[i].flags, 4)

\* C21: the first failed command ends the set.  Once a command of the call
\* has failed the call has returned the error and the return code of that
\* command and no further command was issued; the agent holds the chunks
\* sent before it and nothing else of the call; and no command of any set
\* carries the Abort phase.
C21_SetAbortsWithoutRollback ==
    /\ fx.op = "set"
       => \A i \in 1 .. Len(fx.log) :
             fx.log[i].flags % (CXL_SET_FEAT_FLAG_DATA_TRANSFER_MASK + 1)
                # CXL_SET_FEAT_FLAG_ABORT_DATA_TRANSFER
    /\ (fx.op = "set" /\ fx.failed.rc # "none")
       => /\ fx.pc = "done"
          /\ fx.rc = fx.failed.rc
          /\ fx.return_code = fx.failed.return_code
          /\ ~fx.afterStop
          /\ fx.last = fx.log[Len(fx.log)]
          /\ DOMAIN dev =
                DOMAIN fx.dev0 \cup
                UNION {{fx.log[i].offset + j - 1 : j \in 1 .. fx.log[i].len} :
                          i \in 1 .. Len(fx.log) - 1}
          /\ \A i \in 1 .. Len(fx.log) - 1 : \A j \in 1 .. fx.log[i].len :
                dev[fx.log[i].offset + j - 1] = fx.data[fx.log[i].at + j]

\* The third command of a set whose caller asked for the Abort phase in its
\* flags has failed with the device busy, after two chunks were stored.
C21_Witness ==
    /\ fx.op = "set"
    /\ fx.pc = "done"
    /\ fx.rc = "EBUSY"
    /\ fx.return_code = "BUSY"
    /\ Len(fx.log) = 3
    /\ fx.arg_flag % 8 >= CXL_SET_FEAT_FLAG_ABORT_DATA_TRANSFER
    /\ dev # <<>>

\* C28: the order of the phases.  The commands of a set whose header and
\* data fit in the mailbox are one Full chunk; those of a set that does not
\* fit are one Initiate, then Continue chunks, then one Finish, which is the
\* last command of a set that succeeded and of no other; Full is not among
\* them.
C28_PhaseSequence ==
    fx.op = "set"
    => LET n == Len(fx.log)
           phase == [i \in 1 .. n |->
                       fx.log[i].flags % (CXL_SET_FEAT_FLAG_DATA_TRANSFER_MASK + 1)]
           ok == fx.pc = "done" /\ fx.rc = "OK"
       IN  IF SetHdrSize + fx.size <= mbox.payload_size
           THEN /\ n <= 1
                /\ \A i \in 1 .. n :
                      phase[i] = CXL_SET_FEAT_FLAG_FULL_DATA_TRANSFER
                /\ ok => n = 1
           ELSE /\ \A i \in 1 .. n :
                      /\ phase[i] = CXL_SET_FEAT_FLAG_INITIATE_DATA_TRANSFER
                            <=> i = 1
                      /\ phase[i] \in
                            {CXL_SET_FEAT_FLAG_INITIATE_DATA_TRANSFER,
                             CXL_SET_FEAT_FLAG_CONTINUE_DATA_TRANSFER,
                             CXL_SET_FEAT_FLAG_FINISH_DATA_TRANSFER}
                      /\ phase[i] = CXL_SET_FEAT_FLAG_FINISH_DATA_TRANSFER
                            => i = n /\ fx.pc = "done"
                /\ ok => /\ n >= 2
                         /\ phase[n] = CXL_SET_FEAT_FLAG_FINISH_DATA_TRANSFER

\* A set has succeeded with five chunks, the last of which is as large as
\* the others.
C28_Witness ==
    /\ fx.op = "set"
    /\ fx.pc = "done"
    /\ fx.rc = "OK"
    /\ Len(fx.log) = 5
    /\ fx.size = 5 * (mbox.payload_size - SetHdrSize)

\* C29: the chunks partition the data.  In a set that has succeeded every
\* command's input is at most the mailbox capacity, every chunk but the
\* last carries capacity less header bytes and the last at most as many,
\* the chunks' lengths add up to the size of the data, each chunk is the
\* piece of the data that follows the chunks before it, and its header
\* holds the caller's offset plus the length of the chunks before it, cut
\* to 16 bits.
C29_ChunksPartitionData ==
    (fx.op = "set" /\ fx.pc = "done" /\ fx.rc = "OK")
    => LET n == Len(fx.log)
           D == mbox.payload_size - SetHdrSize
           before[k \in 0 .. n] ==
               IF k = 0 THEN 0 ELSE before[k - 1] + fx.log[k].len
       IN  /\ before[n] = fx.size
           /\ \A k \in 1 .. n :
                 /\ fx.log[k].size_in = SetHdrSize + fx.log[k].len
                 /\ fx.log[k].size_in <= mbox.payload_size
                 /\ k < n => fx.log[k].len = D
                 /\ fx.log[k].at = before[k - 1]
                 /\ fx.log[k].offset = (fx.offset + before[k - 1]) % 65536

\* A set of several chunks that starts below offset 2^16 and ends above it
\* has succeeded, its last chunk shorter than the others.
C29_Witness ==
    /\ fx.op = "set"
    /\ fx.pc = "done"
    /\ fx.rc = "OK"
    /\ Len(fx.log) >= 3
    /\ fx.offset > 0
    /\ fx.log[Len(fx.log)].offset < fx.offset
    /\ fx.log[Len(fx.log)].len < mbox.payload_size - SetHdrSize

\* C22: enumerate returns the agent's K entries.  When the enumeration of a
\* directory of K features succeeds, the entries published are the agent's
\* entries 0 .. K-1, in order.
C22_ReturnsAgentsEntries ==
    (fx.op = "enum" /\ fx.pc = "done" /\ fx.rc = "OK")
    => /\ fx.en.attached
       /\ fx.en.num_features = fx.en.count
       /\ fx.en.entries = AgentPage(0, fx.en.count)

\* C23: an inconsistent page is a protocol error.  When a page command
\* succeeds with no byte after the response header, with a number of bytes
\* after it that is not a multiple of 48, or with a num_entries that is not
\* that number of bytes divided by 48, the enumeration has returned -ENXIO,
\* that page is its last, and the device has no feature state and no
\* entries.
C23_InconsistentPageIsENXIO ==
    fx.op = "enum"
    => \A i \in 1 .. Len(fx.en.pages) :
          LET p == fx.en.pages[i]
              beyond == p.size_out - 8
          IN  (/\ i < Len(fx.en.pages) \/ fx.failed.rc = "none"
               /\ \/ beyond = 0
                  \/ beyond % 48 # 0
                  \/ p.num_entries * 48 # beyond)
              => /\ i = Len(fx.en.pages)
                 /\ fx.pc = "done"
                 /\ fx.rc = "ENXIO"
                 /\ ~fx.en.attached
                 /\ ~fx.en.has_entries
                 /\ fx.en.entries = <<>>

\* After a page that was taken, a page has come with two entries' bytes and
\* a num_entries of one.
C23_Witness ==
    /\ fx.op = "enum"
    /\ fx.pc = "done"
    /\ fx.rc = "ENXIO"
    /\ Len(fx.en.pages) = 2
    /\ fx.en.pages[2].size_out = 8 + 2 * 48
    /\ fx.en.pages[2].num_entries = 1

\* C24: no directory command, no request.  On a device whose feature_cmds
\* lack Get Supported Features the enumeration issues no command and
\* returns -EOPNOTSUPP (or -ENOMEM, when its state could not be allocated);
\* a count request is issued only on a device that has the command.
C24_UnsupportedWithoutCommand ==
    fx.op = "enum"
    => /\ ~cxl_feature_enabled(CXL_MBOX_OP_GET_SUPPORTED_FEATURES)
          => /\ fx.pc = "done"
             /\ fx.rc \in {"EOPNOTSUPP", "ENOMEM"}
             /\ fx.last.opcode = "none"
             /\ ~fx.en.counted
             /\ fx.en.pages = <<>>
       /\ (fx.en.counted \/ fx.last.opcode # "none")
          => cxl_feature_enabled(CXL_MBOX_OP_GET_SUPPORTED_FEATURES)

\* The enumeration of a device that has Get Feature and Set Feature but not
\* Get Supported Features has returned -EOPNOTSUPP.
C24_Witness ==
    /\ fx.op = "enum"
    /\ fx.pc = "done"
    /\ fx.rc = "EOPNOTSUPP"
    /\ mbox.feature_cmds = {CXL_MBOX_OP_GET_FEATURE, CXL_MBOX_OP_SET_FEATURE}
    /\ fx.last.opcode = "none"

\* C25 as stated: when the agent reports 0 features the enumeration
\* succeeds with an empty list and without a page request.
C25_ZeroCountSucceedsEmpty ==
    (fx.op = "enum" /\ fx.pc = "done" /\ fx.en.counted
        /\ fx.failed.rc = "none" /\ fx.en.count = 0)
    => /\ fx.rc = "OK"
       /\ fx.en.entries = <<>>
       /\ fx.en.pages = <<>>

\* C25: when the agent reports 0 features the enumeration returns -ENOENT
\* without a page request, and the device gets no feature state.
C25_ZeroCountIsENOENT ==
    (fx.op = "enum" /\ fx.en.counted
        /\ fx.failed.rc = "none" /\ fx.en.count = 0)
    => /\ fx.pc = "done"
       /\ fx.rc = "ENOENT"
       /\ fx.en.pages = <<>>
       /\ fx.last = CountCmd
       /\ ~fx.en.attached
       /\ ~fx.en.has_entries

\* The agent of a device with all three commands has reported 0 features.
C25_Witness ==
    /\ fx.op = "enum"
    /\ fx.pc = "done"
    /\ fx.en.counted
    /\ fx.failed.rc = "none"
    /\ fx.en.count = 0
    /\ fx.en.cap = CXL_FEATURES_RW
    /\ fx.rc = "ENOENT"

\* C30: short pages.  The start index of every page request is the number
\* of entries the pages before it returned; with every request made,
\* remain_feats plus the entries returned before plus the entries asked for
\* is the count K the agent reported; and between requests remain_feats
\* plus the entries returned is K.
C30_ShortfallAddedBack ==
    (fx.op = "enum" /\ fx.en.counted)
    => LET n == Len(fx.en.pages)
           returned[k \in 0 .. n] ==
               IF k = 0 THEN 0
               ELSE returned[k - 1] + fx.en.pages[k].num_entries
       IN  /\ \A k \in 1 .. n :
                 /\ fx.en.pages[k].start_idx = returned[k - 1]
                 /\ fx.en.pages[k].remain_feats + returned[k - 1]
                       + fx.en.pages[k].copy_feats = fx.en.count
                 /\ fx.en.pages[k].remain_feats >= 0
           /\ fx.pc = "enum_page"
                 => /\ fx.en.start = returned[n]
                    /\ fx.en.remain_feats + fx.en.start = fx.en.count

\* A page asked for two entries and returned one, and the page after it
\* was asked for.
C30_Witness ==
    /\ fx.op = "enum"
    /\ Len(fx.en.pages) >= 2
    /\ fx.en.pages[1].copy_feats = 2
    /\ fx.en.pages[1].num_entries = 1
    /\ fx.en.pages[2].start_idx = 1
    /\ fx.en.pages[2].copy_feats = 2

\* C26: the subspaces are reference counted.  The ref_count of every
\* subspace is the number of users bound to it; a subspace with users is
\* in the list, not freed, and holds its channel; a subspace in the list has
\* a user, so it is removed and freed when its last user releases it and not
\* before; and a release finds a live subspace whose count is positive.
C26_RefCountIsBoundUsers ==
    /\ \A o \in 1 .. Len(subspace) :
          LET users == {u \in Users : usr[u].bound /\ usr[u].pcc_subspace = o}
              listed == \E i \in 1 .. Len(ras2_pcc_subspaces) :
                           ras2_pcc_subspaces[i] = o
          IN  /\ subspace[o].ref_count = Cardinality(users)
              /\ users # {} => (listed /\ ~subspace[o].freed
                                /\ subspace[o].pcc_chan)
              /\ listed => (users # {} /\ ~subspace[o].freed)
              /\ subspace[o].freed => ~subspace[o].pcc_chan
    /\ \A u \in Users :
          /\ usr[u].pc # "oops"
          /\ usr[u].pc = "unregister"
                => /\ usr[u].pcc_subspace # 0
                   /\ subspace[usr[u].pcc_subspace].ref_count > 0

\* A subspace was freed after its last user, and two users now share
\* another one, which one of them is about to release.
C26_Witness ==
    /\ Len(subspace) = 2
    /\ subspace[1].freed
    /\ subspace[2].ref_count = 2
    /\ ras2_pcc_subspaces = <<2>>
    /\ \E u \in Users : usr[u].pc = "unregister"

\* C27: ras2_send_pcc_cmd always returns.  Whatever the agent does, a
\* caller that has entered the function leaves it, also when it first has to
\* wait for the mutex that another caller holds.
C27_SendReturns ==
    \A t \in Threads : (th[t].pc = "lock") ~> (th[t].pc = "done")

\* A caller has returned -EIO from the polling for a command the agent did
\* not answer, while the other caller waits for the mutex.
C27_Witness ==
    \E t \in Threads, w \in Threads :
       /\ th[t].pc = "done"
       /\ th[t].ret = "EIO"
       /\ th[t].rang
       /\ th[t].noAnswer
       /\ th[w].pc = "lock"

\* C31: the quota window is reset lazily.  The quota goes up, and the window
\* start moves, only in the rate-limit check of a command that finds the
\* quota at 0 at least one window after the last reset: that step installs
\* the cap of the subspace (and takes one of it).  Every other step leaves
\* the window start alone and does not raise the quota; a step of the clock
\* leaves the quota alone, and so does nothing but age the window.
C31_LazyReset ==
    [][\/ \E t \in Threads :
            /\ th[t].pc = "mpar"
            /\ pcc_mpar[chan(t)] # 0
            /\ mpar_count = 0
            /\ since_reset >= WindowTicks
            /\ mpar_count' = pcc_mpar[chan(t)] - 1
            /\ since_reset' = 0
       \/ /\ mpar_count' <= mpar_count
          /\ since_reset' = since_reset
       \/ /\ mpar_count' = mpar_count
          /\ since_reset' = (since_reset + 1) % MsWrapTicks
          /\ \A t \in Threads : th'[t].pc = th[t].pc]_vars

\* A command found the quota at 0 a window or more after the last reset of
\* an earlier command, was admitted and installed the quota anew.
C31_Witness ==
    \E t \in Threads :
       /\ th[t].pc = "wr_cmd"
       /\ th[t].reReset
       /\ th[t].qCount = 0
       /\ th[t].qDelta >= WindowTicks
       /\ mpar_count = pcc_mpar[chan(t)] - 1
       /\ since_reset = 0

\* C32: in a call that reaches the agent the command word is written, then
\* the status word is cleared, then the doorbell is rung.  A thread about to
\* clear the status has written its command and not rung; a thread about to
\* ring has written its command, which is the one in the shared region, and
\* the status word there is clear, so no completion flag of an earlier
\* command is set when the doorbell rings; a thread that has rung has
\* written; and a thread polls for completion only after it has rung.
C32_WriteClearRing ==
    \A t \in Threads :
       /\ th[t].pc = "clr_status" =>
             /\ th[t].wrote
             /\ ~th[t].rang
             /\ shm[chan(t)].command = th[t].cmd
       /\ th[t].pc = "ring" =>
             /\ th[t].wrote
             /\ ~th[t].rang
             /\ shm[chan(t)].command = th[t].cmd
             /\ shm[chan(t)].status = {}
       /\ th[t].rang => th[t].wrote
       /\ (th[t].polledPost \/ th[t].pc \in {"post", "post_sleep"}) => th[t].rang

\* A caller has rung the doorbell for a command that follows a completed
\* one, and polls for its completion.
C32_Witness ==
    \E t \in Threads :
       /\ th[t].pc = "post"
       /\ th[t].rang
       /\ th[t].prevCmpl >= 0
       /\ RAS2_PCC_CMD_COMPLETE \notin shm[chan(t)].status

\* C33: rate-limit state belongs to one channel.  A command is refused for
\* the rate limit, after the quota was installed, only if the commands
\* admitted on its own subspace since then have used up that subspace's
\* quota: commands on another subspace take nothing from it.
C33_OwnQuotaOnly ==
    \A t \in Threads :
       th[t].refused /\ hist.resets = 1
       => hist.used[chan(t)] = pcc_mpar[chan(t)]

\* C34 as stated: a Set Feature RPC from user space that names an exclusive
\* feature is refused with EPERM, whatever its scope and the entry of the
\* feature.
C34_ExclusiveIsEPERM ==
    fx.rpc.on /\ fx.rpc.uuid \in cxl_exclusive_feats
    => fx.pc = "done" /\ fx.rc = "EPERM"

\* C34 amended: a Set Feature RPC that names an exclusive feature never gets
\* a SET command to the mailbox.  It is refused with EPERM if the validation
\* of the command lets it through (the feature is in the directory and
\* changeable, its effects are known, not background, and allowed in the
\* scope of the RPC), it has data after the header and the input was copied;
\* with EINVAL if the validation or the size check fails, and with ENOMEM or
\* EFAULT if the input could not be allocated or copied.
C34_ExclusiveNeverSet ==
    fx.rpc.on /\ fx.rpc.uuid \in cxl_exclusive_feats
    => /\ fx.pc = "done"
       /\ fx.op = "rpc"
       /\ fx.log = <<>>
       /\ LET r == fx.rpc
              valid == /\ r.feat.found
                       /\ r.feat.changeable
                       /\ r.feat.effects \cap {"RESERVED", "BACKGROUND"} = {}
                       /\ \/ "IMMEDIATE" \in r.feat.effects /\ r.scope >= 3
                          \/ "RESET" \in r.feat.effects /\ r.scope >= 2
          IN  fx.rc = IF ~valid \/ r.op_size <= SetHdrSize THEN "EINVAL"
                      ELSE IF r.fail = "in" THEN "ENOMEM"
                      ELSE IF r.fail = "copy" THEN "EFAULT"
                      ELSE "EPERM"

\* An RPC in the highest scope for a changeable patrol scrub feature with an
\* immediate effect was refused with EPERM.
C34_Witness ==
    /\ fx.rpc.on
    /\ fx.rpc.uuid = "PATROL_SCRUB"
    /\ fx.rpc.scope = 3
    /\ fx.rpc.feat = [found |-> TRUE, changeable |-> TRUE,
                      effects |-> {"IMMEDIATE"}]
    /\ fx.rpc.fail = "none"
    /\ fx.pc = "done"
    /\ fx.rc = "EPERM"
    /\ fx.log = <<>>

\* C35: cxl_get_feature never offers an output window that runs past the
\* caller's buffer.  For every Get Feature command issued, the bytes received
\* before it plus the output size offered for it are at most feat_out_size.
C35_WindowWithinBuffer ==
    (fx.op = "get" /\ fx.last.opcode = CXL_MBOX_OP_GET_FEATURE)
    => fx.last.at + fx.last.size_out <= fx.size

\* C36: the registry holds at most one channel per subspace id.  No two
\* entries of ras2_pcc_subspaces have the same pcc_subspace_id, and the users
\* bound for one id are bound to one and the same subspace; nor does a
\* register call end with the error of a refused channel request while the
\* registry has an entry for its id.
C36_OneEntryPerId ==
    /\ \A i, j \in 1 .. Len(ras2_pcc_subspaces) :
          subspace[ras2_pcc_subspaces[i]].pcc_subspace_id
             = subspace[ras2_pcc_subspaces[j]].pcc_subspace_id
          => i = j
    /\ \A u, v \in Users :
          (usr[u].bound /\ usr[v].bound /\ usr[u].id = usr[v].id)
          => usr[u].pcc_subspace = usr[v].pcc_subspace
    /\ \A u \in Users :
          (usr[u].pc = "done" /\ usr[u].ret = "ENODEV") => Lookup(usr[u].id) = 0

C38_FlagsWord ==
    fx.op = "set"
    => \A i \in 1 .. Len(fx.log) :
          LET flags == fx.log[i].flags
              room == mbox.payload_size - SetHdrSize
              phase ==
                  IF i = 1
                  THEN IF fx.size <= room
                       THEN CXL_SET_FEAT_FLAG_FULL_DATA_TRANSFER
                       ELSE CXL_SET_FEAT_FLAG_INITIATE_DATA_TRANSFER
                  ELSE IF fx.size - fx.log[i].at <= room
                       THEN CXL_SET_FEAT_FLAG_FINISH_DATA_TRANSFER
                       ELSE CXL_SET_FEAT_FLAG_CONTINUE_DATA_TRANSFER
          IN  /\ flags % (CXL_SET_FEAT_FLAG_DATA_TRANSFER_MASK + 1) = phase
              /\ Bit(flags, 3)
              /\ \A b \in 4 .. 31 : Bit(flags, b) <=> Bit(fx.arg_flag, b)

\* A set called with the data-transfer bits 0 and 2 and without bit 3 has
\* succeeded in three chunks or more whose flags are 9, 10 .. 10, 11.
C38_Witness ==
    /\ fx.op = "set"
    /\ fx.pc = "done"
    /\ fx.rc = "OK"
    /\ fx.arg_flag = 5
    /\ Len(fx.log) >= 3
    /\ fx.log[1].flags = 9
    /\ fx.log[2].flags = 10
    /\ fx.log[Len(fx.log)].flags = 11

\* C39: background and on-demand scrubbing exclude each other (as stated).
\* No run of an enable handler has sent START with the background flag true
\* at its entry or with its status query reporting the scrubber running, and
\* an enable in either case has returned EBUSY; set_enabled_od entered with
\* the background flag true has sent no command; a background disable
\* entered with the flag false has returned EPERM and sent no STOP.
C39_BgOdExclusive ==
    LET Sent(cmd) == \E i \in 1 .. Len(sctx.sent) : sctx.sent[i] = cmd
    IN  sctx.op \in {"bg", "od"}
        => /\ Sent(RAS2_START_PATROL_SCRUBBER)
                 => ~sctx.bg0 /\ ~sctx.running
           /\ (sctx.enable /\ (sctx.bg0 \/ sctx.running))
                 => sctx.ret = "EBUSY"
           /\ (sctx.op = "od" /\ sctx.bg0) => sctx.sent = <<>>
           /\ (sctx.op = "bg" /\ ~sctx.enable /\ ~sctx.bg0)
                 => sctx.ret = "EPERM" /\ ~Sent(RAS2_STOP_PATROL_SCRUBBER)

\* C39, amended: the exclusion holds, the results hold where the handler gets
\* as far as its check.  START is sent only by a run entered with the
\* background flag false whose status query succeeded and reported the
\* scrubber not running; an enable whose status query reported it running
\* has returned EBUSY, or ERANGE from set_enabled_od when the cached base or
\* size is 0; set_enabled_od entered with the background flag true has sent
\* nothing and returned EBUSY; set_enabled_bg entered to enable with the flag
\* true, or to disable with the flag false, has sent its status query and
\* nothing else, and returned EBUSY, or EPERM, unless the query failed, whose
\* error it then returned.
C39_BgOdExclusiveWhenQueried ==
    LET Sent(cmd) == \E i \in 1 .. Len(sctx.sent) : sctx.sent[i] = cmd
        queried == sctx.query = "OK"
    IN  sctx.op \in {"bg", "od"}
        => /\ Sent(RAS2_START_PATROL_SCRUBBER)
                 => ~sctx.bg0 /\ queried /\ ~sctx.running
           /\ (sctx.enable /\ sctx.running)
                 => \/ sctx.ret = "EBUSY"
                    \/ /\ sctx.op = "od"
                       /\ sctx.ret = "ERANGE"
                       /\ (sctx.base = 0 \/ sctx.size = 0)
           /\ (sctx.op = "od" /\ sctx.bg0)
                 => sctx.sent = <<>> /\ sctx.ret = "EBUSY"
           /\ (sctx.op = "bg" /\ (sctx.enable <=> sctx.bg0))
                 => /\ sctx.sent = <<RAS2_GET_PATROL_PARAMETERS>>
                    /\ sctx.ret = IF ~queried THEN sctx.query
                                  ELSE IF sctx.enable THEN "EBUSY" ELSE "EPERM"

\* An on-demand start with a valid range has been refused with EBUSY, after
\* its status query alone, because the agent reported the scrubber running
\* while the background flag was false.
C39_Witness ==
    /\ sctx.op = "od"
    /\ sctx.enable
    /\ ~sctx.bg0
    /\ sctx.running
    /\ sctx.base # 0
    /\ sctx.size # 0
    /\ sctx.ret = "EBUSY"
    /\ sctx.sent = <<RAS2_GET_PATROL_PARAMETERS>>

\* C40: the enumeration terminates.  Every page request of an enumeration
\* but the last was answered by a page that passed the checks; a page that
\* passed them holds at least one entry and at most as many as were asked
\* for; remain_feats is never negative, neither once a request is made up
\* nor after its answer is taken; the index of the next page is the number
\* of entries taken so far; and no more page requests are issued than the
\* count the agent reported.
C40_EnumerateTerminates ==
    fx.op = "enum"
    => LET pages == fx.en.pages
           n == Len(pages)
           Passed(p) == ~PageBad(p.size_out, p.num_entries)
       IN  /\ \A i \in 1 .. n :
                /\ i < n => Passed(pages[i])
                /\ Passed(pages[i])
                      => /\ pages[i].num_entries >= 1
                         /\ pages[i].num_entries <= pages[i].copy_feats
                /\ pages[i].remain_feats >= 0
           /\ fx.en.remain_feats >= 0
           /\ fx.en.start <= fx.en.count
           /\ n <= fx.en.count

\* An enumeration of MaxFeats features has succeeded with as many page
\* requests as features, its mailbox having had room for two entries a page.
C40_Witness ==
    /\ fx.op = "enum"
    /\ fx.pc = "done"
    /\ fx.rc = "OK"
    /\ fx.en.count = MaxFeats
    /\ fx.en.max_feats = 2
    /\ Len(fx.en.pages) = MaxFeats
    /\ fx.en.remain_feats = 0

====
